---- MODULE Spec2Model ----
(***************************************************************************)
(* A model of the Decofile operator: the Decofile reconciler and its       *)
(* ConfigMap writer, the pod notifier's fan-out, and the Decofile deletion *)
(* validator, together with the cluster they act on (Decofiles,            *)
(* ConfigMaps, Services, pods, the garbage collector and the wall clock).  *)
(***************************************************************************)
EXTENDS Bags, FiniteSets, Integers, Sequences, TLC

(***************************************************************************)
(* Bounds of the model.                                                    *)
(***************************************************************************)
\* The wall clock runs over the Unix seconds 1..MaxTime.
MaxTime == 2
\* A Decofile name is created at most MaxUid times (each time with a new UID).
MaxUid == 2
\* Pods in the cluster of the reconciler specification.
MaxPods == 1
\* Pods discovered by the fan-out of the fan-out specification.
FanoutPods == 11
\* Services in the namespace of the deletion-validator specification.
MaxServices == 2

(***************************************************************************)
(* Program constants.                                                      *)
(***************************************************************************)
\* 2.5 * 1024 * 1024 bytes
compressionThreshold == 2621440
notificationBatchSize == 10
maxRetries == 3
decofileLabel == "deco.sites/decofile"
decofileInjectAnnot == "deco.sites/decofile-inject"
deploymentIdLabel == "app.deco/deploymentId"
decofileMountPathAnnot == "deco.sites/decofile-mount-path"
appContainerName == "app"
reloadTokenEnvVar == "DECO_RELEASE_RELOAD_TOKEN"
decoReleaseEnvVar == "DECO_RELEASE"
SourceTypeInline == "inline"
SourceTypeGitHub == "github"

(***************************************************************************)
(* Values.  A JSON document is named by a string; DocLen gives its length in  *)
(* bytes.  "s2" is exactly as long as the compression threshold.           *)
(***************************************************************************)
Docs == {"s1", "s2", "b1", "b2"}

DocLen(doc) ==
  CASE doc = "s1" -> 1024
    [] doc = "s2" -> 2621440
    [] doc = "b1" -> 2621441
    [] doc = "b2" -> 3145728
    [] OTHER -> 0

\* The archive behind each revision of the GitHub source.
Commits == {"c1", "c2"}

ArchiveContent(commit) == IF commit = "c1" THEN "s1" ELSE "b2"

DecofileNames == {"site"}

\* spec.inline: "nil" (no inline payload), "empty" (a key whose raw value is
\* empty) or the document the value map serialises to.
\* spec.github: "nil" or the revision.
\* spec.silent: the manifest asks for silent mode.
UserSpecs ==
  {[deploymentId |-> "", source |-> SourceTypeInline, inline |-> i, github |-> "nil",
    silent |-> FALSE] : i \in {"s1", "b1", "empty"}}
  \cup {[deploymentId |-> "", source |-> SourceTypeInline, inline |-> "b1", github |-> "nil",
         silent |-> TRUE]}
  \cup {[deploymentId |-> "", source |-> SourceTypeGitHub, inline |-> "nil", github |-> g,
         silent |-> FALSE] : g \in Commits}
  \cup {[deploymentId |-> "", source |-> "bogus", inline |-> "nil", github |-> "nil",
         silent |-> FALSE]}

Namespace == "default"

EmptyStatus ==
  [configMapName |-> "", sourceType |-> "", gitHubCommit |-> "", conditions |-> <<>>]

VARIABLES
  now,         \* the wall clock, in Unix seconds
  nextUid,     \* the UID the next created Decofile gets
  decofiles,   \* Decofile name -> [uid, spec, status], for the Decofiles that exist
  configMaps,  \* ConfigMap name -> [data, owner], for the ConfigMaps that exist
  services,    \* the Services of the cluster, a sequence of [name, namespace, annotations, labels]
  pods,        \* a bag of pods, each with the fan-out worker started for it
  rec,         \* the reconciler: its position and the locals of the turn in progress
  resultChan,  \* the fan-out's result channel: the results sent and not yet received
  coll,        \* the fan-out's collector loop: i and the three counters
  ctxDone,     \* notifyCtx is done (deadline elapsed, or governing context cancelled)
  turn,        \* what the current (or last) reconcile turn did
  admission,   \* the answer of the last delete validation
  src          \* a call of a source's Retrieve: what it reads and what it returned

vars == <<now, nextUid, decofiles, configMaps, services, pods, rec, resultChan, coll,
          ctxDone, turn, admission, src>>

(***************************************************************************)
(* Helpers on functions with a finite domain (Go maps).                    *)
(***************************************************************************)
Remove(f, k) == [x \in DOMAIN f \ {k} |-> f[x]]

Put(f, k, v) == [x \in DOMAIN f \cup {k} |-> IF x = k THEN v ELSE f[x]]

EmptyMap == [x \in {} |-> 0]

\* The value a Go map of strings yields for a missing key.
EmptyValue == [enc |-> "plain", doc |-> ""]

Lookup(data, k) == IF k \in DOMAIN data THEN data[k] ELSE EmptyValue

(***************************************************************************)
(* Source adapters.                                                        *)
(***************************************************************************)
NewSource(decofile) ==
  CASE decofile.spec.source = SourceTypeInline ->
         IF decofile.spec.inline = "nil"
           THEN [err |-> TRUE, sourceType |-> ""]
           ELSE [err |-> FALSE, sourceType |-> SourceTypeInline]
    [] decofile.spec.source = SourceTypeGitHub ->
         IF decofile.spec.github = "nil"
           THEN [err |-> TRUE, sourceType |-> ""]
           ELSE [err |-> FALSE, sourceType |-> SourceTypeGitHub]
    [] OTHER -> [err |-> TRUE, sourceType |-> ""]

\* The results Retrieve can give: the inline source fails on an empty raw value.
InlineSourceRetrieve(inline) ==
  IF inline = "empty"
    THEN {[err |-> TRUE, json |-> ""]}
    ELSE {[err |-> FALSE, json |-> inline]}

\* The GitHub source fails when the secret or the download fails.
GitHubSourceRetrieve(commit) ==
  {[err |-> TRUE, json |-> ""], [err |-> FALSE, json |-> ArchiveContent(commit)]}

Retrieve(decofile) ==
  IF decofile.spec.source = SourceTypeInline
    THEN InlineSourceRetrieve(decofile.spec.inline)
    ELSE GitHubSourceRetrieve(decofile.spec.github)

(***************************************************************************)
(* Encoder: the content key and its value.  base64(brotli(x)) is injective *)
(* and never equal to x itself.                                            *)
(***************************************************************************)
compressBrotliBase64(doc) == [enc |-> "base64-brotli", doc |-> doc]

\* The encoding of a document of n bytes.
EncodeOfLen(jsonContent, n) ==
  IF n > compressionThreshold
    THEN [contentKey |-> "decofile.bin", value |-> compressBrotliBase64(jsonContent)]
    ELSE [contentKey |-> "decofile.json", value |-> [enc |-> "plain", doc |-> jsonContent]]

Encode(jsonContent) == EncodeOfLen(jsonContent, DocLen(jsonContent))

\* A ConfigMap named as the Decofile.
ConfigMapNamePlain(name) == name

ConfigMapName(name) == "decofile-" \o name

ConfigMapNames == {ConfigMapName(n) : n \in DecofileNames}

(***************************************************************************)
(* ConfigMap writer (the create / update / keep branch of Reconcile).      *)
(* exists: the Get found the ConfigMap; found: what it read; uid: the UID  *)
(* of the Decofile being reconciled; t: time.Now().Unix().  timestamp.txt *)
(* is the decimal string of t, which stands here as the number itself.     *)
(***************************************************************************)
ExistingKey(found) ==
  IF "decofile.bin" \in DOMAIN found.data THEN "decofile.bin" ELSE "decofile.json"

\* A writer that adds the new keys to the data it found.
UpdatedDataMerged(found, enc, t) ==
  Put(Put(found.data, enc.contentKey, enc.value), "timestamp.txt", t)

UpdatedData(found, enc, t) == Put(enc.contentKey :> enc.value, "timestamp.txt", t)

\* A create branch that reports the new ConfigMap as changed data.
CreateBranchNotifying(enc, uid, t) ==
  [kind |-> "CreatedNew", dataChanged |-> TRUE, formatChanged |-> FALSE, timestamp |-> t,
   write |-> TRUE,
   cm |-> [data |-> Put(enc.contentKey :> enc.value, "timestamp.txt", t), owner |-> uid]]

CreateBranch(enc, uid, t) ==
  [kind |-> "CreatedNew", dataChanged |-> FALSE, formatChanged |-> FALSE, timestamp |-> t,
   write |-> TRUE,
   cm |-> [data |-> Put(enc.contentKey :> enc.value, "timestamp.txt", t), owner |-> uid]]

\* An update branch that hands on the timestamp it found.
UpdateBranchOldTimestamp(found, enc, t) ==
  LET existingKey == ExistingKey(found)
      formatChanged == existingKey # enc.contentKey
      contentChanged == Lookup(found.data, existingKey) # enc.value
      dataChanged == formatChanged \/ contentChanged
  IN IF dataChanged
       THEN [kind |-> "Rewritten", dataChanged |-> TRUE, formatChanged |-> formatChanged,
             timestamp |-> found.data["timestamp.txt"], write |-> TRUE,
             cm |-> [data |-> UpdatedData(found, enc, t), owner |-> found.owner]]
       ELSE [kind |-> "Unchanged", dataChanged |-> FALSE, formatChanged |-> FALSE,
             timestamp |-> found.data["timestamp.txt"], write |-> FALSE, cm |-> found]

UpdateBranch(found, enc, t) ==
  LET existingKey == ExistingKey(found)
      formatChanged == existingKey # enc.contentKey
      contentChanged == Lookup(found.data, existingKey) # enc.value
      dataChanged == formatChanged \/ contentChanged
  IN IF dataChanged
       THEN [kind |-> "Rewritten", dataChanged |-> TRUE, formatChanged |-> formatChanged,
             timestamp |-> t, write |-> TRUE,
             cm |-> [data |-> UpdatedData(found, enc, t), owner |-> found.owner]]
       ELSE [kind |-> "Unchanged", dataChanged |-> FALSE, formatChanged |-> FALSE,
             timestamp |-> found.data["timestamp.txt"], write |-> FALSE, cm |-> found]

Upsert(cms, cmName, enc, uid, t) ==
  IF cmName \notin DOMAIN cms
    THEN CreateBranch(enc, uid, t)
    ELSE UpdateBranch(cms[cmName], enc, t)

(***************************************************************************)
(* Status update at the end of Reconcile: the Decofile is read again and   *)
(* the status written on that copy.                                        *)
(***************************************************************************)
ReadyCondition(cmName, sourceType) ==
  [type |-> "Ready", status |-> "True", reason |-> "ConfigMapCreated",
   message |-> <<"ConfigMap", cmName, "created successfully from", sourceType, "source">>]

RECURSIVE SetCondition(_, _)
\* Replace the first condition of the same type, or append.
SetCondition(conditions, c) ==
  IF conditions = <<>> THEN <<c>>
  ELSE IF Head(conditions).type = c.type THEN <<c>> \o Tail(conditions)
  ELSE <<Head(conditions)>> \o SetCondition(Tail(conditions), c)

\* (status.lastUpdated, a wall-clock reading nothing reads back, is left out.)
StatusAfter(fresh, cmName, sourceType) ==
  [configMapName |-> cmName,
   sourceType |-> sourceType,
   gitHubCommit |-> IF fresh.spec.source = SourceTypeGitHub /\ fresh.spec.github # "nil"
                      THEN fresh.spec.github ELSE fresh.status.gitHubCommit,
   conditions |-> SetCondition(fresh.status.conditions, ReadyCondition(cmName, sourceType))]

HasCondition(status, type, value) ==
  \E i \in 1..Len(status.conditions) :
    status.conditions[i].type = type /\ status.conditions[i].status = value

(***************************************************************************)
(* Deletion validator.                                                     *)
(***************************************************************************)
MapGet(m, k) == IF k \in DOMAIN m THEN m[k] ELSE ""

\* A validator that always takes the Decofile's name as the id.
EffectiveDeploymentIdIgnored(name, decofile) == name

EffectiveDeploymentId(name, decofile) ==
  IF decofile.spec.deploymentId = "" THEN name ELSE decofile.spec.deploymentId

\* client.List(ctx, serviceList, client.InNamespace(namespace))
ListServices(svcs, namespace) == SelectSeq(svcs, LAMBDA svc : svc.namespace = namespace)

RECURSIVE UsingServices(_, _)
\* The names of the listed Services with injection enabled and the Decofile's id.
UsingServices(items, deploymentId) ==
  IF items = <<>> THEN <<>>
  ELSE LET svc == Head(items)
           rest == UsingServices(Tail(items), deploymentId)
       IN IF /\ MapGet(svc.annotations, decofileInjectAnnot) = "true"
             /\ MapGet(svc.labels, deploymentIdLabel) = deploymentId
            THEN <<svc.name>> \o rest
            ELSE rest

Admitted == [allowed |-> TRUE, warnings |-> 0, names |-> <<>>]

\* A validator that rejects the delete when it cannot list the Services.
ValidateDeleteFailClosed(name, decofile, svcs, listOK) ==
  LET deploymentId == EffectiveDeploymentId(name, decofile)
      usingServices == UsingServices(ListServices(svcs, decofile.namespace), deploymentId)
  IN IF ~listOK \/ Len(usingServices) > 0
       THEN [allowed |-> FALSE, warnings |-> 1, names |-> usingServices]
       ELSE Admitted

ValidateDelete(name, decofile, svcs, listOK) ==
  LET deploymentId == EffectiveDeploymentId(name, decofile)
      usingServices == UsingServices(ListServices(svcs, decofile.namespace), deploymentId)
  IN IF ~listOK THEN Admitted
     ELSE IF Len(usingServices) > 0
       THEN [allowed |-> FALSE, warnings |-> 1, names |-> usingServices]
       ELSE Admitted


(***************************************************************************)
(* The sources in detail.  A key, a file name or a path is a sequence of   *)
(* pieces: a piece is one character, the five characters ".json", the      *)
(* escape "%2F" or a "%" that starts no escape.  Raw JSON and file         *)
(* content are named by strings, "" being the empty byte string.  A zip    *)
(* archive is the sequence of its entries [name, isDir, content].          *)
(***************************************************************************)
\* strings.TrimSuffix(key, ".json")
TrimSuffix(key) ==
  IF key # <<>> /\ key[Len(key)] = ".json" THEN SubSeq(key, 1, Len(key) - 1) ELSE key

\* strings.HasPrefix(s, prefix)
HasPrefix(s, prefix) ==
  Len(prefix) <= Len(s) /\ SubSeq(s, 1, Len(prefix)) = prefix

\* strings.TrimPrefix(s, prefix)
TrimPrefix(s, prefix) ==
  IF HasPrefix(s, prefix) THEN SubSeq(s, Len(prefix) + 1, Len(s)) ELSE s

RECURSIVE Base(_)
\* filepath.Base(name), for a name that does not end in a slash
Base(name) ==
  IF name = <<>> THEN <<".">>
  ELSE IF \A i \in 1..Len(name) : name[i] # "/" THEN name
  ELSE Base(Tail(name))

\* url.QueryUnescape(filename), and the original when it fails
QueryUnescape(filename) ==
  IF \E i \in 1..Len(filename) : filename[i] = "%"
    THEN filename
    ELSE [i \in 1..Len(filename) |-> IF filename[i] = "%2F" THEN "/" ELSE filename[i]]

\* encoder.Encode(filesJSON), for the filesJSON the loop over entries fills in
\* one of Go's map iteration orders: each clean key holds the content of one
\* of the entries it comes from.
\* clean[k] is the clean key of entry k.
FilesJSON(clean, entries) ==
  {doc \in [{clean[k] : k \in DOMAIN entries} -> {entries[k] : k \in DOMAIN entries}] :
     \A c \in DOMAIN doc : \E k \in DOMAIN entries : clean[k] = c /\ doc[c] = entries[k]}

\* InlineSource.Retrieve on the value map: the documents it can return.
InlineRetrieve(value) ==
  IF \E key \in DOMAIN value : value[key] = ""
    THEN {[err |-> TRUE, doc |-> EmptyMap]}
    ELSE {[err |-> FALSE, doc |-> d] : d \in FilesJSON([key \in DOMAIN value |-> TrimSuffix(key)], value)}

RECURSIVE extractLoop(_, _, _, _, _)
\* The loop of extractFiles from entry i on.
extractLoop(zip, targetPath, rootDir, i, files) ==
  IF i > Len(zip) THEN files
  ELSE LET file == zip[i]
           relativePath == TrimPrefix(file.name, rootDir)
       IN IF file.isDir \/ ~HasPrefix(relativePath, targetPath)
            THEN extractLoop(zip, targetPath, rootDir, i + 1, files)
            ELSE extractLoop(zip, targetPath, rootDir, i + 1,
                             Put(files, Base(file.name), file.content))

\* extractFiles(zipData, targetPath); filepath.ToSlash changes nothing where
\* the separator is the slash.
extractFiles(zip, targetPath) ==
  LET rootDir == IF zip # <<>> /\ zip[1].isDir THEN zip[1].name ELSE <<>>
  IN extractLoop(zip, targetPath, rootDir, 2, EmptyMap)

\* Downloader.DownloadAndExtract: the request it sends and what it returns.
DownloadAndExtract(token, zip, path, statusOK) ==
  LET req == [authorization |-> IF token # "" THEN "token " \o token ELSE ""]
  IN IF ~statusOK
       THEN [err |-> TRUE, requests |-> <<req>>, files |-> EmptyMap]
       ELSE [err |-> FALSE, requests |-> <<req>>, files |-> extractFiles(zip, path)]

\* The token GitHubSource.Retrieve downloads with: of the secret, or of the
\* environment of the process.
GitHubToken(config, secrets, env) ==
  IF config.secret # ""
    THEN IF config.secret \notin DOMAIN secrets
           THEN [err |-> TRUE, token |-> ""]
         ELSE IF MapGet(secrets[config.secret], "token") = ""
           THEN [err |-> TRUE, token |-> ""]
         ELSE [err |-> FALSE, token |-> secrets[config.secret]["token"]]
    ELSE [err |-> FALSE, token |-> MapGet(env, "GITHUB_TOKEN")]

\* GitHubSource.Retrieve: the results it can have.
GitHubRetrieve(config, secrets, env, zip, statusOK) ==
  LET tok == GitHubToken(config, secrets, env)
      dl == DownloadAndExtract(tok.token, zip, config.path, statusOK)
      cleanFilename == [filename \in DOMAIN dl.files |-> TrimSuffix(QueryUnescape(filename))]
  IN IF tok.err
       THEN {[err |-> TRUE, token |-> "", requests |-> <<>>, files |-> EmptyMap,
              doc |-> EmptyMap]}
     ELSE IF dl.err
       THEN {[err |-> TRUE, token |-> tok.token, requests |-> dl.requests,
              files |-> EmptyMap, doc |-> EmptyMap]}
     ELSE {[err |-> FALSE, token |-> tok.token, requests |-> dl.requests,
            files |-> dl.files, doc |-> d] : d \in FilesJSON(cleanFilename, dl.files)}

\* No call of Retrieve is looked at.
NoSource == [pc |-> "none"]

(***************************************************************************)
(* Service mutator (the defaulting webhook of Services).  A Service is     *)
(* [name, namespace, annotations, labels, template], its template          *)
(* [labels, volumes, containers]; a volume is [name, configMap], a         *)
(* container [name, volumeMounts, env], a mount                            *)
(* [name, mountPath, subPath, readOnly], an env entry [name, value].       *)
(***************************************************************************)
\* The index of the first element of seq with the name, or 0.
RECURSIVE IndexOf(_, _, _)
IndexOf(seq, name, i) ==
  IF i > Len(seq) THEN 0
  ELSE IF seq[i].name = name THEN i
  ELSE IndexOf(seq, name, i + 1)

getDeploymentId(service) ==
  LET deploymentId == MapGet(service.labels, deploymentIdLabel)
  IN IF deploymentIdLabel \notin DOMAIN service.labels \/ deploymentId = ""
       THEN [err |-> TRUE, deploymentId |-> ""]
       ELSE [err |-> FALSE, deploymentId |-> deploymentId]

\* client.List(ctx, decofileList, client.InNamespace(namespace)): an error, or
\* the names of the Decofiles of the namespace in one of the orders the
\* client's cache can give them in.
ListDecofiles(dfs, namespace) ==
  LET names == {n \in DOMAIN dfs : dfs[n].namespace = namespace}
  IN {[ok |-> FALSE, items |-> <<>>]}
     \cup {[ok |-> TRUE, items |-> s] :
            s \in {t \in [1..Cardinality(names) -> names] :
                     \A i, j \in DOMAIN t : i # j => t[i] # t[j]}}

\* The first listed Decofile that has the id.
findDecofileByDeploymentId(dfs, namespace, deploymentId, list) ==
  LET matching == {i \in 1..Len(list.items) :
                     (IF dfs[list.items[i]].spec.deploymentId = "" THEN list.items[i]
                        ELSE dfs[list.items[i]].spec.deploymentId) = deploymentId}
  IN IF ~list.ok \/ matching = {}
       THEN [err |-> TRUE, name |-> ""]
       ELSE [err |-> FALSE,
             name |-> list.items[CHOOSE i \in matching : \A j \in matching : i <= j]]

ConfigMapVolume(configMapName) == [name |-> "decofile-config", configMap |-> configMapName]

addOrUpdateVolume(service, configMapName) ==
  LET volumes == service.template.volumes
      i == IndexOf(volumes, "decofile-config", 1)
  IN [service EXCEPT !.template.volumes =
        IF i # 0 THEN [volumes EXCEPT ![i].configMap = configMapName]
                 ELSE Append(volumes, ConfigMapVolume(configMapName))]

\* The container named "app", or the first one.
findTargetContainer(service) ==
  LET i == IndexOf(service.template.containers, appContainerName, 1)
  IN IF i # 0 THEN i ELSE 1

addOrUpdateVolumeMount(service, containerIdx, mountDir) ==
  LET mounts == service.template.containers[containerIdx].volumeMounts
      i == IndexOf(mounts, "decofile-config", 1)
  IN [service EXCEPT !.template.containers[containerIdx].volumeMounts =
        IF i # 0
          THEN [mounts EXCEPT ![i].mountPath = mountDir, ![i].subPath = ""]
          ELSE Append(mounts, [name |-> "decofile-config", mountPath |-> mountDir,
                               subPath |-> "", readOnly |-> TRUE])]

\* An update that appends the entry whether or not one is there.
SetEnvAppending(env, name, value) == Append(env, [name |-> name, value |-> value])

\* Set the first entry of env with the name to the value, or append one.
SetEnv(env, name, value) ==
  LET i == IndexOf(env, name, 1)
  IN IF i # 0 THEN [env EXCEPT ![i].value = value]
              ELSE Append(env, [name |-> name, value |-> value])

\* reloadToken is the value of uuid.New().String() in this call.
addOrUpdateEnvVars(service, containerIdx, decoReleaseValue, reloadToken) ==
  LET env == service.template.containers[containerIdx].env
  IN [service EXCEPT !.template.containers[containerIdx].env =
        SetEnv(SetEnv(env, decoReleaseEnvVar, decoReleaseValue),
               reloadTokenEnvVar, reloadToken)]

\* An injection that does not look at the ConfigMap's keys.
injectDecofileVolumeJson(service, configMapName, cms, mountDir, reloadToken) ==
  LET decoReleaseValue == "file://" \o mountDir \o "/decofile.json"
      withVolume == addOrUpdateVolume(service, configMapName)
      targetContainerIdx == findTargetContainer(withVolume)
  IN IF Len(service.template.containers) = 0
       THEN [err |-> TRUE, service |-> withVolume]
       ELSE [err |-> FALSE,
             service |-> addOrUpdateEnvVars(
                           addOrUpdateVolumeMount(withVolume, targetContainerIdx, mountDir),
                           targetContainerIdx, decoReleaseValue, reloadToken)]

injectDecofileVolume(service, configMapName, cms, mountDir, reloadToken) ==
  LET fileExtension == IF /\ configMapName \in DOMAIN cms
                          /\ "decofile.bin" \in DOMAIN cms[configMapName].data
                         THEN "bin" ELSE "json"
      decoReleaseValue == "file://" \o mountDir \o "/decofile." \o fileExtension
      withVolume == addOrUpdateVolume(service, configMapName)
      targetContainerIdx == findTargetContainer(withVolume)
  IN IF Len(service.template.containers) = 0
       THEN [err |-> TRUE, service |-> withVolume]
       ELSE [err |-> FALSE,
             service |-> addOrUpdateEnvVars(
                           addOrUpdateVolumeMount(withVolume, targetContainerIdx, mountDir),
                           targetContainerIdx, decoReleaseValue, reloadToken)]

\* A mutator that does not look at the status.
ConfigMapReadyAlways(decofile) == TRUE

\* The Decofile's ConfigMap is there for the Service to mount.
ConfigMapReady(decofile) == decofile.status.configMapName # ""

\* A mutator that injects whenever the inject annotation is there, whatever
\* its value.
DefaultOnAnyValue(service, dfs, cms, list, reloadToken) ==
  LET none == [err |-> FALSE, service |-> service, decofile |-> ""]
      id == getDeploymentId(service)
      df == findDecofileByDeploymentId(dfs, service.namespace, id.deploymentId, list)
      mountDir == IF decofileMountPathAnnot \in DOMAIN service.annotations
                    THEN service.annotations[decofileMountPathAnnot]
                    ELSE "/app/decofile"
  IN IF decofileInjectAnnot \notin DOMAIN service.annotations THEN none
     ELSE IF id.err THEN [err |-> TRUE, service |-> service, decofile |-> ""]
     ELSE IF df.err THEN none
     ELSE IF ~ConfigMapReady(dfs[df.name]) THEN none
     ELSE LET inj == injectDecofileVolume(service, dfs[df.name].status.configMapName, cms,
                                          mountDir, reloadToken)
          IN IF inj.err THEN [err |-> TRUE, service |-> inj.service, decofile |-> ""]
             ELSE [err |-> FALSE,
                   service |-> [inj.service EXCEPT !.template.labels =
                                  Put(@, deploymentIdLabel, id.deploymentId)],
                   decofile |-> df.name]

\* The outcome of Default, and the name of the Decofile it injected ("" when
\* it injected nothing).
Default(service, dfs, cms, list, reloadToken) ==
  LET none == [err |-> FALSE, service |-> service, decofile |-> ""]
      id == getDeploymentId(service)
      df == findDecofileByDeploymentId(dfs, service.namespace, id.deploymentId, list)
      mountDir == IF decofileMountPathAnnot \in DOMAIN service.annotations
                    THEN service.annotations[decofileMountPathAnnot]
                    ELSE "/app/decofile"
  IN IF MapGet(service.annotations, decofileInjectAnnot) # "true" THEN none
     ELSE IF id.err THEN [err |-> TRUE, service |-> service, decofile |-> ""]
     ELSE IF df.err THEN none
     ELSE IF ~ConfigMapReady(dfs[df.name]) THEN none
     ELSE LET inj == injectDecofileVolume(service, dfs[df.name].status.configMapName, cms,
                                          mountDir, reloadToken)
          IN IF inj.err THEN [err |-> TRUE, service |-> inj.service, decofile |-> ""]
             ELSE [err |-> FALSE,
                   service |-> [inj.service EXCEPT !.template.labels =
                                  Put(@, deploymentIdLabel, id.deploymentId)],
                   decofile |-> df.name]

(***************************************************************************)
(* Pods and the fan-out workers.  A pod carries the worker goroutine the   *)
(* running (or last) fan-out started for it:                               *)
(*   g: "none" (no worker), "queued" (waiting for a semaphore slot),       *)
(*      "get" (slot held, pod not yet re-read), "http" (request in         *)
(*      flight), "backoff" (waiting to retry), "exit" (result sent, slot   *)
(*      released);                                                         *)
(*   attempt: the attempt of notifyPodWithRetry; reqs: the requests sent   *)
(*   to the pod in this fan-out; res: how the worker ended.                *)
(***************************************************************************)
Pod(phase, hasIP, label) ==
  [phase |-> phase, hasIP |-> hasIP, labels |-> (decofileLabel :> label), live |-> TRUE,
   g |-> "none", attempt |-> 0, reqs |-> 0, res |-> ""]

PodKinds ==
  {Pod("Running", TRUE, "site"), Pod("Pending", FALSE, "site"),
   Pod("Running", FALSE, "site"), Pod("Running", TRUE, "other")}

RECURSIVE SeqToBag(_)
SeqToBag(s) == IF s = <<>> THEN EmptyBag ELSE SetToBag({Head(s)}) (+) SeqToBag(Tail(s))

\* The bag of n copies of p.
Of(p, n) == IF n = 0 THEN EmptyBag ELSE p :> n

PodSet == BagToSet(pods)

Replace(bag, old, new) == (bag (-) SetToBag({old})) (+) SetToBag({new})

Holding(p) == p.g \in {"get", "http", "backoff"}

RECURSIVE Copies(_)
\* The number of pods of the bag that are one of the records of S.
Copies(S) ==
  IF S = {} THEN 0
  ELSE LET p == CHOOSE x \in S : TRUE IN CopiesIn(p, pods) + Copies(S \ {p})

\* The slots of the semaphore that are taken.
InFlight == Copies({p \in PodSet : Holding(p)})

NoWorkers == \A p \in PodSet : p.g \in {"none", "exit"}

\* client.List(..., client.MatchingLabels{decofileLabel: decofileName})
Discovered(p, decofileName) ==
  p.live /\ decofileLabel \in DOMAIN p.labels /\ p.labels[decofileLabel] = decofileName

RECURSIVE MapPods(_, _, _)
\* The bag of F(p) for the pods p of S, each as often as p is in bag.
MapPods(F(_), S, bag) ==
  IF S = {} THEN EmptyBag
  ELSE LET p == CHOOSE x \in S : TRUE
       IN (F(p) :> CopiesIn(p, bag)) (+) MapPods(F, S \ {p}, bag)

\* The fan-out starts one worker per discovered pod; pods that vanished earlier
\* are gone, and no worker is left of the fan-out before.
Launch(p, decofileName) ==
  [p EXCEPT !.g = IF Discovered(p, decofileName) THEN "queued" ELSE "none",
            !.attempt = 0, !.reqs = 0, !.res = ""]

Launched(bag, decofileName) ==
  MapPods(LAMBDA p : Launch(p, decofileName), {p \in BagToSet(bag) : p.live}, bag)

\* The workers that have exited are gone, and so are the pods that vanished
\* while such a worker ran.
Sweep(p) == [p EXCEPT !.g = "none", !.attempt = 0, !.reqs = 0, !.res = ""]

Swept(bag) ==
  MapPods(Sweep, {p \in BagToSet(bag) : p.g = "exit" /\ p.live}, bag)
    (+) MapPods(LAMBDA p : p, {p \in BagToSet(bag) : p.g # "exit"}, bag)

(***************************************************************************)
(* The reconciler.                                                         *)
(*   rec.pc: "idle"; "call" (the ConfigMap is rewritten and                *)
(*   NotifyPodsForDecofile is about to be called); "collect" (the workers  *)
(*   are started and the collector loop runs).                             *)
(*   rec.written: the data this turn wrote to the ConfigMap.               *)
(*   rec.timestamp: the timestamp Reconcile passes to the notifier.        *)
(*   rec.payload: the request body the notifier prepared; every request of *)
(*   the fan-out carries it.                                               *)
(*   rec.requeue: the last Reconcile returned an error, so the work queue  *)
(*   holds a retry of the key.                                             *)
(***************************************************************************)
\* The body of the reload requests, marshalled once for all the pods of the
\* fan-out.  (The reconciler passes no document, so the decofile field is
\* left out.)
Payload(timestamp) == [timestamp |-> timestamp, source |-> "operator"]

NoPayload == [timestamp |-> 0, source |-> ""]

Idle(requeue) ==
  [pc |-> "idle", name |-> "", sourceType |-> "", timestamp |-> 0, total |-> 0,
   written |-> EmptyMap, requeue |-> requeue, payload |-> NoPayload]

\* What the turn in progress, or the turn that returned in the last step, did:
\*   kind: what it did to the ConfigMap; uid: the UID of the Decofile it
\*   read; formatChanged: the content key
\*   changed; notifierInvoked: it called
\*   NotifyPodsForDecofile; result: "running", "ok" or the error Reconcile
\*   returned; n: the count the notifier's error carries; cut: notifyCtx was
\*   done before the notifier returned; retry: the turn is the retry of a turn
\*   that failed in the notifier; silent: spec.silent of the Decofile it read;
\*   downloaded: the GitHub source downloaded the archive.
\* It is forgotten as soon as the cluster moves on.
NoTurn ==
  [kind |-> "None", uid |-> 0, formatChanged |-> FALSE, notifierInvoked |-> FALSE,
   result |-> "none", n |-> 0, cut |-> FALSE, retry |-> FALSE, silent |-> FALSE,
   downloaded |-> FALSE]

Forget == IF rec.pc = "idle" THEN NoTurn ELSE turn

\* The errors the notifier returns: the pod list failed, some pods failed, the
\* deadline cut the fan-out short.
NotifyErrors == {"err:list", "err:failed", "err:timeout"}

FanoutErrors == {"err:failed", "err:timeout"}

ZeroColl == [i |-> 0, successCount |-> 0, failCount |-> 0, skippedCount |-> 0]

\* The end of Reconcile after the notification step: re-fetch, status update.
UpdateStatus(name, sourceType) ==
  IF name \notin DOMAIN decofiles
    THEN [ok |-> FALSE, decofiles |-> decofiles]
    ELSE [ok |-> TRUE,
          decofiles |-> Put(decofiles, name,
             [decofiles[name] EXCEPT
                !.status = StatusAfter(decofiles[name], ConfigMapName(name), sourceType)])]

\* Reconcile returns an error before it wrote anything.
ReturnEarly(result) ==
  /\ turn' = [NoTurn EXCEPT !.kind = "NoWrite", !.result = result,
                            !.retry = (rec.requeue /\ turn.result \in FanoutErrors)]
  /\ rec' = Idle(TRUE)
  /\ UNCHANGED <<decofiles, configMaps>>

\* A Reconcile that calls the notifier whenever the ConfigMap existed.
WriteConfigMapAlwaysNotifying(name, enc) ==
  LET decofile == decofiles[name]
      sourceType == NewSource(decofile).sourceType
      cmName == ConfigMapName(name)
      up == Upsert(configMaps, cmName, enc, decofile.uid, now)
      wrote == [NoTurn EXCEPT !.kind = up.kind, !.uid = decofile.uid,
                              !.formatChanged = up.formatChanged,
                              !.retry = (rec.requeue /\ turn.result \in FanoutErrors),
                              !.silent = decofile.spec.silent,
                              !.downloaded = (sourceType = SourceTypeGitHub)]
  IN
  /\ configMaps' = IF up.write THEN Put(configMaps, cmName, up.cm) ELSE configMaps
  /\ IF up.kind # "CreatedNew"
       THEN /\ rec' = [pc |-> "call", name |-> name, sourceType |-> sourceType,
                       timestamp |-> up.timestamp, total |-> 0,
                       written |-> up.cm.data, requeue |-> FALSE,
                       payload |-> NoPayload]
            /\ turn' = [wrote EXCEPT !.result = "running"]
            /\ UNCHANGED decofiles
       ELSE /\ decofiles' = UpdateStatus(name, sourceType).decofiles
            /\ rec' = Idle(FALSE)
            /\ turn' = [wrote EXCEPT !.result = "ok"]

\* Reconcile from the ConfigMap step to the call of the notifier (or to its
\* end, when the ConfigMap was created or is unchanged); enc is the encoded
\* content of the source.
WriteConfigMap(name, enc) ==
  LET decofile == decofiles[name]
      sourceType == NewSource(decofile).sourceType
      cmName == ConfigMapName(name)
      up == Upsert(configMaps, cmName, enc, decofile.uid, now)
      wrote == [NoTurn EXCEPT !.kind = up.kind, !.uid = decofile.uid,
                              !.formatChanged = up.formatChanged,
                              !.retry = (rec.requeue /\ turn.result \in FanoutErrors),
                              !.silent = decofile.spec.silent,
                              !.downloaded = (sourceType = SourceTypeGitHub)]
  IN
  /\ configMaps' = IF up.write THEN Put(configMaps, cmName, up.cm) ELSE configMaps
  /\ IF up.dataChanged
       THEN /\ rec' = [pc |-> "call", name |-> name, sourceType |-> sourceType,
                       timestamp |-> up.timestamp, total |-> 0,
                       written |-> up.cm.data, requeue |-> FALSE,
                       payload |-> NoPayload]
            /\ turn' = [wrote EXCEPT !.result = "running"]
            /\ UNCHANGED decofiles
       ELSE /\ decofiles' = UpdateStatus(name, sourceType).decofiles
            /\ rec' = Idle(FALSE)
            /\ turn' = [wrote EXCEPT !.result = "ok"]

\* Reconcile from its start to the call of the notifier (or to its end, when
\* the ConfigMap was created or is unchanged).
Reconcile(name) ==
  /\ rec.pc = "idle"
  /\ NoWorkers
  /\ UNCHANGED <<src, now, nextUid, services, pods, resultChan, coll, ctxDone, admission>>
  /\ IF name \notin DOMAIN decofiles
       THEN /\ turn' = [NoTurn EXCEPT !.kind = "NotFound", !.result = "ok"]
            /\ rec' = Idle(FALSE)
            /\ UNCHANGED <<decofiles, configMaps>>
     ELSE IF NewSource(decofiles[name]).err
       THEN ReturnEarly("err:source")
     ELSE \E r \in Retrieve(decofiles[name]) :
       IF r.err
         THEN ReturnEarly("err:retrieve")
         ELSE WriteConfigMap(name, Encode(r.json))

\* A Reconcile that deletes the ConfigMap it rewrote when the notifier fails.
NotifyReturnRollback(result, n, cut) ==
  /\ ctxDone' = TRUE
  /\ resultChan' = <<>>
  /\ coll' = ZeroColl
  /\ pods' = Swept(pods)
  /\ IF result = "ok"
       THEN LET st == UpdateStatus(rec.name, rec.sourceType)
            IN /\ decofiles' = st.decofiles
               /\ rec' = Idle(~st.ok)
               /\ turn' = [turn EXCEPT !.result = IF st.ok THEN "ok" ELSE "err:refetch",
                                       !.notifierInvoked = TRUE, !.n = n, !.cut = cut]
               /\ UNCHANGED configMaps
       ELSE /\ rec' = Idle(TRUE)
            /\ turn' = [turn EXCEPT !.result = result, !.notifierInvoked = TRUE, !.n = n,
                                    !.cut = cut]
            /\ configMaps' = Remove(configMaps, ConfigMapName(rec.name))
            /\ UNCHANGED decofiles

\* NotifyPodsForDecofile returns err to Reconcile ("defer cancel()" ends
\* notifyCtx), and Reconcile runs to its end: it returns the notifier's error,
\* or reads the Decofile again and updates its status.
NotifyReturn(result, n, cut) ==
  /\ ctxDone' = TRUE
  /\ resultChan' = <<>>
  /\ coll' = ZeroColl
  /\ pods' = Swept(pods)
  /\ IF result = "ok"
       THEN LET st == UpdateStatus(rec.name, rec.sourceType)
            IN /\ decofiles' = st.decofiles
               /\ rec' = Idle(~st.ok)
               /\ turn' = [turn EXCEPT !.result = IF st.ok THEN "ok" ELSE "err:refetch",
                                       !.notifierInvoked = TRUE, !.n = n, !.cut = cut]
       ELSE /\ rec' = Idle(TRUE)
            /\ turn' = [turn EXCEPT !.result = result, !.notifierInvoked = TRUE, !.n = n,
                                    !.cut = cut]
            /\ UNCHANGED decofiles
  /\ UNCHANGED configMaps

\* NotifyPodsForDecofile up to the start of the workers: the pods with the
\* Decofile's label are listed, and one worker is started for each.
NotifyPodsForDecofile ==
  /\ rec.pc = "call"
  /\ UNCHANGED <<src, now, nextUid, services, admission>>
  /\ \E listOK \in BOOLEAN :
       LET n == Copies({p \in PodSet : Discovered(p, rec.name)})
       IN IF ~listOK
            THEN NotifyReturn("err:list", 0, FALSE)
          ELSE IF n = 0
            THEN NotifyReturn("ok", 0, FALSE)
          ELSE /\ pods' = Launched(pods, rec.name)
               /\ rec' = [rec EXCEPT !.pc = "collect", !.total = n,
                                      !.payload = Payload(rec.timestamp)]
               /\ resultChan' = <<>>
               /\ coll' = ZeroColl
               /\ ctxDone' = FALSE
               /\ turn' = [turn EXCEPT !.notifierInvoked = TRUE]
               /\ UNCHANGED <<decofiles, configMaps>>

\* The collector loop receives a result ("case result := <-resultChan").
Collect ==
  /\ rec.pc = "collect"
  /\ resultChan # <<>>
  /\ LET r == Head(resultChan)
         c == [i |-> coll.i + 1,
               successCount |-> coll.successCount + (IF r = "nil" THEN 1 ELSE 0),
               failCount |-> coll.failCount + (IF r = "err" THEN 1 ELSE 0),
               skippedCount |-> coll.skippedCount + (IF r = "getfail" THEN 1 ELSE 0)]
     IN IF c.i < rec.total
          THEN /\ coll' = c
               /\ resultChan' = Tail(resultChan)
               /\ UNCHANGED <<rec, turn, decofiles, configMaps, ctxDone, pods>>
          ELSE IF c.failCount > 0
            THEN NotifyReturn("err:failed", c.failCount, ctxDone)
            ELSE NotifyReturn("ok", 0, ctxDone)
  /\ UNCHANGED <<src, now, nextUid, services, admission>>

\* The collector loop sees notifyCtx done ("case <-notifyCtx.Done()").
CollectTimeout ==
  /\ rec.pc = "collect"
  /\ ctxDone
  /\ NotifyReturn("err:timeout", coll.successCount, TRUE)
  /\ UNCHANGED <<src, now, nextUid, services, admission>>

\* The 2-minute deadline of notifyCtx elapses, or the context that governs
\* Reconcile is cancelled.
CtxDone ==
  /\ rec.pc = "collect"
  /\ ~ctxDone
  /\ ctxDone' = TRUE
  /\ UNCHANGED <<src, now, nextUid, decofiles, configMaps, services, pods, rec, resultChan,
                 coll, turn, admission>>

(***************************************************************************)
(* The workers of the fan-out (one goroutine per discovered pod).          *)
(***************************************************************************)
RECURSIVE extractReloadToken(_)
\* The token of the first container named "app" that has one, of the
\* containers given; "" when there is none.
extractReloadToken(containers) ==
  IF containers = <<>> THEN ""
  ELSE LET container == Head(containers)
           i == IndexOf(container.env, reloadTokenEnvVar, 1)
       IN IF container.name = appContainerName /\ i # 0
            THEN container.env[i].value
            ELSE extractReloadToken(Tail(containers))

\* The Authorization header of the reload requests to the pod ("" when the
\* header is not set).
Authorization(pod) ==
  LET token == extractReloadToken(pod.containers)
  IN IF token # "" THEN "Token " \o token ELSE ""

WorkerFrame ==
  UNCHANGED <<src, now, nextUid, decofiles, configMaps, services, rec, coll, ctxDone, turn,
              admission>>

\* A worker whose send waits for the collector: once the notifier has
\* returned, nobody receives.
StepUnbuffered(p, q, sent) ==
  IF rec.pc = "collect"
    THEN /\ pods' = Replace(pods, p, q)
         /\ resultChan' = IF sent = "" THEN resultChan ELSE Append(resultChan, sent)
    ELSE /\ sent = ""
         /\ pods' = Swept(Replace(pods, p, q))
         /\ UNCHANGED resultChan

\* The worker of pod p moves on (p becomes q) and sends `sent` to resultChan
\* ("" when it sends nothing); sending the result releases the slot.
\* After the notifier has returned nobody reads the channel, and the worker
\* that exits is gone.
Step(p, q, sent) ==
  IF rec.pc = "collect"
    THEN /\ pods' = Replace(pods, p, q)
         /\ resultChan' = IF sent = "" THEN resultChan ELSE Append(resultChan, sent)
    ELSE /\ pods' = Swept(Replace(pods, p, q))
         /\ UNCHANGED resultChan

\* A retry loop that allows one attempt more.
FailOutcomeOneMore(q) ==
  IF q.attempt = maxRetries + 1
    THEN [pod |-> [q EXCEPT !.g = "exit", !.res = "failed"], sent |-> "err"]
    ELSE [pod |-> [q EXCEPT !.g = "backoff"], sent |-> ""]

\* notifyPodWithRetry after a failed attempt: the last one returns the error,
\* the others wait for the back-off.
FailOutcome(q) ==
  IF q.attempt = maxRetries
    THEN [pod |-> [q EXCEPT !.g = "exit", !.res = "failed"], sent |-> "err"]
    ELSE [pod |-> [q EXCEPT !.g = "backoff"], sent |-> ""]

\* HTTPClient.Do of attempt k: with notifyCtx done it fails before anything is
\* sent, otherwise the request is on its way.
DoOutcome(q, k, done) ==
  IF done
    THEN FailOutcome([q EXCEPT !.attempt = k])
    ELSE [pod |-> [q EXCEPT !.g = "http", !.attempt = k, !.reqs = @ + 1], sent |-> ""]

\* Workers that start without waiting for a slot.
AcquireUnbounded ==
  /\ \E p \in PodSet :
       /\ p.g = "queued"
       /\ Step(p, [p EXCEPT !.g = "get"], "")
  /\ WorkerFrame

\* "semaphore <- struct{}{}"
Acquire ==
  /\ \E p \in PodSet :
       /\ p.g = "queued"
       /\ InFlight < notificationBatchSize
       /\ Step(p, [p EXCEPT !.g = "get"], "")
  /\ WorkerFrame

\* A worker that notifies the pod it re-read whatever its phase and address.
GetPodUnchecked ==
  /\ \E p \in PodSet :
       /\ p.g = "get"
       /\ \E getOK \in (IF ~p.live THEN {FALSE} ELSE IF ctxDone THEN BOOLEAN ELSE {TRUE}) :
            IF ~getOK
              THEN Step(p, [p EXCEPT !.g = "exit", !.res = "getfail"], "getfail")
            ELSE LET o == DoOutcome(p, 1, ctxDone) IN Step(p, o.pod, o.sent)
  /\ WorkerFrame

\* The pod is re-read; a pod that is gone, not Running or without IP is skipped,
\* any other gets the first attempt of notifyPodWithRetry.
GetPod ==
  /\ \E p \in PodSet :
       /\ p.g = "get"
       /\ \E getOK \in (IF ~p.live THEN {FALSE} ELSE IF ctxDone THEN BOOLEAN ELSE {TRUE}) :
            IF ~getOK
              THEN Step(p, [p EXCEPT !.g = "exit", !.res = "getfail"], "getfail")
            ELSE IF p.phase # "Running" \/ ~p.hasIP
              THEN Step(p, [p EXCEPT !.g = "exit", !.res = "skip"], "nil")
            ELSE LET o == DoOutcome(p, 1, ctxDone) IN Step(p, o.pod, o.sent)
  /\ WorkerFrame

\* The request of the running attempt ends: 2xx, or a failure (transport error,
\* non-2xx, timeout, cancellation).  A pod that is gone does not answer.
Response ==
  /\ \E p \in PodSet :
       /\ p.g = "http"
       /\ \E ok \in (IF p.live THEN BOOLEAN ELSE {FALSE}) :
            IF ok
              THEN Step(p, [p EXCEPT !.g = "exit", !.res = "ok"], "nil")
              ELSE LET o == FailOutcome(p) IN Step(p, o.pod, o.sent)
  /\ WorkerFrame

\* "case <-time.After(backoff)": the next attempt.
BackoffTimer ==
  /\ ~ctxDone
  /\ \E p \in PodSet :
       /\ p.g = "backoff"
       /\ LET o == DoOutcome(p, p.attempt + 1, FALSE) IN Step(p, o.pod, o.sent)
  /\ WorkerFrame

\* "case <-ctx.Done()": notifyPodWithRetry returns ctx.Err().
BackoffCancelled ==
  /\ ctxDone
  /\ \E p \in PodSet :
       /\ p.g = "backoff"
       /\ Step(p, [p EXCEPT !.g = "exit", !.res = "cancelled"], "err")
  /\ WorkerFrame

(***************************************************************************)
(* The cluster around the operator.                                        *)
(***************************************************************************)
Tick ==
  /\ now < MaxTime
  /\ now' = now + 1
  /\ turn' = Forget
  /\ UNCHANGED <<src, nextUid, decofiles, configMaps, services, pods, rec, resultChan, coll,
                 ctxDone, admission>>

CreateDecofile(name, spec) ==
  /\ name \notin DOMAIN decofiles
  /\ nextUid <= MaxUid
  /\ decofiles' = Put(decofiles, name,
       [uid |-> nextUid, namespace |-> Namespace, spec |-> spec, status |-> EmptyStatus])
  /\ nextUid' = nextUid + 1
  /\ turn' = Forget
  /\ UNCHANGED <<src, now, configMaps, services, pods, rec, resultChan, coll, ctxDone,
                 admission>>

UpdateDecofile(name, spec) ==
  /\ name \in DOMAIN decofiles
  /\ decofiles[name].spec # spec
  /\ decofiles' = Put(decofiles, name, [decofiles[name] EXCEPT !.spec = spec])
  /\ turn' = Forget
  /\ UNCHANGED <<src, now, nextUid, configMaps, services, pods, rec, resultChan, coll, ctxDone,
                 admission>>

\* A delete request for the Decofile: the validating webhook answers, and the
\* Decofile is deleted when it admits the request.
DeleteDecofile(name) ==
  /\ name \in DOMAIN decofiles
  /\ \E listOK \in BOOLEAN :
       LET resp == ValidateDelete(name, decofiles[name], services, listOK)
       IN /\ admission' = resp
          /\ decofiles' = IF resp.allowed THEN Remove(decofiles, name) ELSE decofiles
  /\ turn' = Forget
  /\ UNCHANGED <<src, now, nextUid, configMaps, services, pods, rec, resultChan, coll, ctxDone>>

LiveUids == {decofiles[n].uid : n \in DOMAIN decofiles}

\* The garbage collector deletes a ConfigMap whose owner is gone.
GarbageCollect ==
  /\ \E cmName \in DOMAIN configMaps :
       /\ configMaps[cmName].owner # 0
       /\ configMaps[cmName].owner \notin LiveUids
       /\ configMaps' = Remove(configMaps, cmName)
  /\ turn' = Forget
  /\ UNCHANGED <<src, now, nextUid, decofiles, services, pods, rec, resultChan, coll, ctxDone,
                 admission>>

\* A pod is deleted (scale-down, eviction).
PodVanishes ==
  /\ \E p \in PodSet :
       /\ p.live
       /\ pods' = IF p.g = "none" THEN pods (-) SetToBag({p})
                                  ELSE Replace(pods, p, [p EXCEPT !.live = FALSE])
  /\ turn' = Forget
  /\ UNCHANGED <<src, now, nextUid, decofiles, configMaps, services, rec, resultChan, coll,
                 ctxDone, admission>>

(***************************************************************************)
(* The reconciler specification: an empty cluster with up to MaxPods pods. *)
(***************************************************************************)
InitPods == {SeqToBag(s) : s \in UNION {[1..n -> PodKinds] : n \in 0..MaxPods}}

Init ==
  /\ now = 1
  /\ nextUid = 1
  /\ decofiles = EmptyMap
  /\ configMaps = EmptyMap
  /\ services = <<>>
  /\ pods \in InitPods
  /\ rec = Idle(FALSE)
  /\ resultChan = <<>>
  /\ coll = ZeroColl
  /\ ctxDone = FALSE
  /\ turn = NoTurn
  /\ admission = Admitted
  /\ src = NoSource

Next ==
  \/ \E name \in DecofileNames : Reconcile(name)
  \/ NotifyPodsForDecofile
  \/ Collect
  \/ CollectTimeout
  \/ CtxDone
  \/ Acquire
  \/ GetPod
  \/ Response
  \/ BackoffTimer
  \/ BackoffCancelled
  \/ Tick
  \/ \E name \in DecofileNames, spec \in UserSpecs : CreateDecofile(name, spec)
  \/ \E name \in DecofileNames, spec \in UserSpecs : UpdateDecofile(name, spec)
  \/ \E name \in DecofileNames : DeleteDecofile(name)
  \/ GarbageCollect
  \/ PodVanishes

Spec == Init /\ [][Next]_vars

(***************************************************************************)
(* The fan-out specification: Reconcile has just rewritten the ConfigMap   *)
(* of the Decofile "site" and calls the notifier; FanoutPods pods carry    *)
(* the Decofile's label, FanoutRunning of them Running with an IP and the  *)
(* others Pending.                                                         *)
(***************************************************************************)
FanoutRunning == {0, 1}

FanoutSpec ==
  [deploymentId |-> "", source |-> SourceTypeInline, inline |-> "b1", github |-> "nil",
   silent |-> FALSE]

FanoutDecofile ==
  LET created == [uid |-> 1, namespace |-> Namespace, spec |-> FanoutSpec,
                  status |-> EmptyStatus]
  IN [created EXCEPT
        !.status = StatusAfter(created, ConfigMapName("site"), SourceTypeInline)]

FanoutUp == UpdateBranch(CreateBranch(Encode("s1"), 1, 1).cm, Encode("b1"), 1)

InitFanout ==
  /\ now = 1
  /\ nextUid = 2
  /\ decofiles = ("site" :> FanoutDecofile)
  /\ configMaps = (ConfigMapName("site") :> FanoutUp.cm)
  /\ services = <<>>
  /\ \E k \in FanoutRunning :
       pods = Of(Pod("Running", TRUE, "site"), k)
                (+) Of(Pod("Pending", FALSE, "site"), FanoutPods - k)
  /\ rec = [pc |-> "call", name |-> "site", sourceType |-> SourceTypeInline,
            timestamp |-> FanoutUp.timestamp, total |-> 0, written |-> FanoutUp.cm.data,
            requeue |-> FALSE, payload |-> NoPayload]
  /\ resultChan = <<>>
  /\ coll = ZeroColl
  /\ ctxDone = FALSE
  /\ turn = [NoTurn EXCEPT !.kind = FanoutUp.kind, !.uid = 1, !.formatChanged = FanoutUp.formatChanged,
                           !.result = "running"]
  /\ admission = Admitted
  /\ src = NoSource

NextFanout ==
  \/ NotifyPodsForDecofile
  \/ Collect
  \/ CollectTimeout
  \/ CtxDone
  \/ Acquire
  \/ GetPod
  \/ Response
  \/ BackoffTimer
  \/ BackoffCancelled

SpecFanout == InitFanout /\ [][NextFanout]_vars

(***************************************************************************)
(* The deletion-validator specification: the Decofile "site" with or       *)
(* without a deploymentId, and up to MaxServices Services of any kind.     *)
(***************************************************************************)
DeploymentIds == {"", "d1"}

ServiceKinds ==
  [namespace : {Namespace, "other"},
   annotations : {EmptyMap, decofileInjectAnnot :> "true", decofileInjectAnnot :> "false"},
   labels : {EmptyMap, deploymentIdLabel :> "site", deploymentIdLabel :> "d1"}]

ServiceNames == <<"svc-a", "svc-b", "svc-c", "svc-d">>

Named(kinds) ==
  [i \in 1..Len(kinds) |->
     [name |-> ServiceNames[i], namespace |-> kinds[i].namespace,
      annotations |-> kinds[i].annotations, labels |-> kinds[i].labels]]

InitDelete ==
  /\ now = 1
  /\ nextUid = 2
  /\ \E id \in DeploymentIds :
       decofiles = ("site" :> [uid |-> 1, namespace |-> Namespace,
                               spec |-> [FanoutSpec EXCEPT !.deploymentId = id],
                               status |-> EmptyStatus])
  /\ configMaps = EmptyMap
  /\ \E n \in 0..MaxServices : \E kinds \in [1..n -> ServiceKinds] : services = Named(kinds)
  /\ pods = EmptyBag
  /\ rec = Idle(FALSE)
  /\ resultChan = <<>>
  /\ coll = ZeroColl
  /\ ctxDone = FALSE
  /\ turn = NoTurn
  /\ admission = Admitted
  /\ src = NoSource

\* A user takes the injection annotation off a Service.
RemoveInjectAnnotation ==
  /\ \E i \in 1..Len(services) :
       /\ decofileInjectAnnot \in DOMAIN services[i].annotations
       /\ services' = [services EXCEPT ![i].annotations = EmptyMap]
  /\ admission' = Admitted
  /\ UNCHANGED <<src, now, nextUid, decofiles, configMaps, pods, rec, resultChan, coll, ctxDone,
                 turn>>

NextDelete ==
  \/ \E name \in DecofileNames : DeleteDecofile(name)
  \/ RemoveInjectAnnotation

SpecDelete == InitDelete /\ [][NextDelete]_vars

(***************************************************************************)
(* The mutator specification: one Service of any kind, the Decofile "site" *)
(* (absent, or with or without deploymentId and bound ConfigMap), its      *)
(* ConfigMap in either encoding; the Service is admitted up to             *)
(* MaxAdmissions times and pods are created from its template.             *)
(* A Service carries, next to its fields: admitted (the admissions asked   *)
(* for), boundTo (the Decofile an admission injected) and token (the token *)
(* the last injection generated); a pod carries the boundTo and token of   *)
(* the template it was created from.                                       *)
(***************************************************************************)
MaxAdmissions == 2

\* The values uuid.New() yields.
Tokens == {"t1", "t2"}

Container(name, env) == [name |-> name, volumeMounts |-> <<>>, env |-> env]

AdmitEnvs ==
  {<<>>, <<[name |-> reloadTokenEnvVar, value |-> "t0"]>>,
   <<[name |-> "PORT", value |-> "8000"], [name |-> decoReleaseEnvVar, value |-> "old"]>>}

\* A mount of the name the mutator uses, written by the user.
UserMount ==
  [name |-> "decofile-config", mountPath |-> "/old", subPath |-> "sub", readOnly |-> FALSE]

AdmitContainers ==
  {<<>>}
  \cup {<<Container(n, env)>> : n \in {appContainerName, "web"}, env \in AdmitEnvs}
  \cup {<<[Container(appContainerName, <<>>) EXCEPT !.volumeMounts = <<UserMount>>]>>}
  \cup {<<Container("web", <<>>), Container(appContainerName, env)>> : env \in AdmitEnvs}

AdmitServices ==
  {[name |-> "svc-a", namespace |-> Namespace, annotations |-> a, labels |-> l,
    template |-> [labels |-> EmptyMap, volumes |-> <<>>, containers |-> c],
    admitted |-> 0, boundTo |-> "", token |-> ""] :
     a \in {EmptyMap, decofileInjectAnnot :> "false", decofileInjectAnnot :> "true",
            (decofileInjectAnnot :> "true") @@ (decofileMountPathAnnot :> "/custom")},
     l \in {EmptyMap, deploymentIdLabel :> "", deploymentIdLabel :> "site",
            deploymentIdLabel :> "d1"},
     c \in AdmitContainers}

\* A second Decofile, which takes the id of "site" as its deploymentId.
SecondDecofile ==
  LET created == [uid |-> 2, namespace |-> Namespace,
                  spec |-> [FanoutSpec EXCEPT !.deploymentId = "site"], status |-> EmptyStatus]
  IN [created EXCEPT
        !.status = StatusAfter(created, ConfigMapName("site-b"), SourceTypeInline)]

AdmitDecofiles ==
  {EmptyMap}
  \cup {"site" :> [uid |-> 1, namespace |-> Namespace,
                   spec |-> [FanoutSpec EXCEPT !.deploymentId = id], status |-> st] :
          id \in DeploymentIds,
          st \in {EmptyStatus, FanoutDecofile.status}}
  \cup {("site" :> FanoutDecofile) @@ ("site-b" :> SecondDecofile)}

AdmitConfigMaps ==
  {EmptyMap} \cup {ConfigMapName("site") :> CreateBranch(Encode(doc), 1, 1).cm :
                     doc \in {"s1", "b1"}}

InitAdmit ==
  /\ now = 1
  /\ nextUid = 2
  /\ decofiles \in AdmitDecofiles
  /\ configMaps \in AdmitConfigMaps
  /\ \E svc \in AdmitServices : services = <<svc>>
  /\ pods = EmptyBag
  /\ rec = Idle(FALSE)
  /\ resultChan = <<>>
  /\ coll = ZeroColl
  /\ ctxDone = FALSE
  /\ turn = NoTurn
  /\ admission = Admitted
  /\ src = NoSource

\* The API server asks the mutator to admit the Service (create or update) and
\* stores what it returns, unless it returns an error.
AdmitService ==
  /\ \E i \in 1..Len(services), reloadToken \in Tokens :
     \E list \in ListDecofiles(decofiles, services[i].namespace) :
       LET out == Default(services[i], decofiles, configMaps, list, reloadToken)
           stored == IF out.err THEN services[i] ELSE out.service
       IN /\ services[i].admitted < MaxAdmissions
          /\ services' = [services EXCEPT ![i] =
               [stored EXCEPT !.admitted = @ + 1,
                              !.boundTo = IF out.decofile # "" THEN out.decofile ELSE @,
                              !.token = IF out.decofile # "" THEN reloadToken ELSE @]]
          /\ admission' = IF out.err
                            THEN [allowed |-> FALSE, warnings |-> 0,
                                  names |-> <<services[i].name>>]
                            ELSE Admitted
  /\ UNCHANGED <<src, now, nextUid, decofiles, configMaps, pods, rec, resultChan, coll, ctxDone,
                 turn>>

\* A pod is created from the template of an admitted Service.
CreatePod ==
  /\ BagCardinality(pods) < MaxPods
  /\ \E i \in 1..Len(services) :
       /\ services[i].admitted > 0
       /\ admission.allowed
       /\ pods' = pods (+) SetToBag({
            [containers |-> services[i].template.containers,
             boundTo |-> services[i].boundTo, token |-> services[i].token]
              @@ [Pod("Running", TRUE, "") EXCEPT !.labels = services[i].template.labels]})
  /\ UNCHANGED <<src, now, nextUid, decofiles, configMaps, services, rec, resultChan, coll,
                 ctxDone, turn, admission>>

NextAdmit ==
  \/ AdmitService
  \/ CreatePod

SpecAdmit == InitAdmit /\ [][NextAdmit]_vars

(***************************************************************************)
(* The source specification: one call of Retrieve, of the inline source on *)
(* a value map or of the GitHub source on an archive.                      *)
(***************************************************************************)
\* The most files of an archive.
MaxFiles == 2

\* The keys of spec.inline.value, and the value maps.
InlineKeys ==
  {<<"a">>, <<"a", ".json">>, <<"a", ".json", ".json">>, <<"c", ".json">>}

InlineValues == UNION {[K -> {"{}", "[]", ""}] : K \in SUBSET InlineKeys}

\* The root directory of the archive, the files in it, the configured paths.
RootDir == <<"r", "/">>

ArchiveFiles ==
  {<<"b", "/", "x", ".json">>, <<"b", "/", "x", ".json", ".json">>,
   <<"b", "2", "/", "x", ".json">>, <<"x", ".json">>, <<"b", "/", "c", "%2F", "x">>,
   <<"b", "/", "%", "x", ".json">>}

TargetPaths == {<<>>, <<"b">>, <<"b", "/">>}

\* An entry of the archive; the content of a file is named by its path.
Entry(rel, isDir) == [name |-> RootDir \o rel, isDir |-> isDir, content |-> rel]

\* An archive as codeload serves it: the root directory first, then the
\* directory "b/" and up to MaxFiles files.
Archives ==
  {<<Entry(<<>>, TRUE), Entry(<<"b", "/">>, TRUE)>> \o [i \in 1..Len(fs) |-> Entry(fs[i], FALSE)] :
     fs \in {f \in UNION {[1..m -> ArchiveFiles] : m \in 0..MaxFiles} :
               \A i, j \in 1..Len(f) : i # j => f[i] # f[j]}}

GitHubConfigs == [secret : {"", "github-token"}, path : TargetPaths]

Secrets ==
  {EmptyMap, "github-token" :> EmptyMap, "github-token" :> ("token" :> "s3cr3t")}

Environments == {EmptyMap, "GITHUB_TOKEN" :> "env-token"}

NoResult ==
  [err |-> FALSE, token |-> "", requests |-> <<>>, files |-> EmptyMap, doc |-> EmptyMap]

InlineCalls ==
  {[pc |-> "call", source |-> SourceTypeInline, value |-> v,
    config |-> [secret |-> "", path |-> <<>>], secrets |-> EmptyMap, env |-> EmptyMap,
    zip |-> <<>>, result |-> NoResult] : v \in InlineValues}

GitHubCalls ==
  {[pc |-> "call", source |-> SourceTypeGitHub, value |-> EmptyMap,
    config |-> c, secrets |-> sec, env |-> env, zip |-> z, result |-> NoResult] :
     c \in GitHubConfigs, sec \in Secrets, env \in Environments, z \in Archives}

InitSource ==
  /\ now = 1
  /\ nextUid = 1
  /\ decofiles = EmptyMap
  /\ configMaps = EmptyMap
  /\ services = <<>>
  /\ pods = EmptyBag
  /\ rec = Idle(FALSE)
  /\ resultChan = <<>>
  /\ coll = ZeroColl
  /\ ctxDone = FALSE
  /\ turn = NoTurn
  /\ admission = Admitted
  /\ src \in InlineCalls \cup GitHubCalls

SourceFrame ==
  UNCHANGED <<now, nextUid, decofiles, configMaps, services, pods, rec, resultChan, coll,
              ctxDone, turn, admission>>

\* InlineSource.Retrieve is called.
RetrieveInline ==
  /\ src.pc = "call"
  /\ src.source = SourceTypeInline
  /\ \E r \in InlineRetrieve(src.value) :
       src' = [src EXCEPT !.pc = "done",
                          !.result = [NoResult EXCEPT !.err = r.err, !.doc = r.doc]]
  /\ SourceFrame

\* GitHubSource.Retrieve is called; codeload answers 200 or not.
RetrieveGitHub ==
  /\ src.pc = "call"
  /\ src.source = SourceTypeGitHub
  /\ \E statusOK \in BOOLEAN :
       \E r \in GitHubRetrieve(src.config, src.secrets, src.env, src.zip, statusOK) :
         src' = [src EXCEPT !.pc = "done", !.result = r]
  /\ SourceFrame

NextSource == RetrieveInline \/ RetrieveGitHub

SpecSource == InitSource /\ [][NextSource]_vars

(***************************************************************************)
(* Properties of the reconciler (checked under Spec).                      *)
(***************************************************************************)
Returned == rec.pc = "idle" /\ turn.kind # "None"

WroteConfigMap == turn.kind \in {"CreatedNew", "Rewritten", "Unchanged"}

ContentKeys == {"decofile.json", "decofile.bin"}

\* C1: Reconcile calls the notifier (lists pods, starts workers) only in a turn
\* that rewrote a ConfigMap that existed; a turn that created the ConfigMap or
\* found it unchanged never reaches the notifier.
C1_NotifyOnlyAfterRewrite ==
  (turn.notifierInvoked \/ rec.pc # "idle") => turn.kind = "Rewritten"

C1_Witness ==
  /\ Returned
  /\ turn.kind = "Rewritten"
  /\ turn.notifierInvoked
  /\ turn.result = "ok"
  /\ turn.n = 0

\* C2: in every step, the timestamp.txt of a ConfigMap that stays does not
\* decrease, grows strictly when the step changes the content key or its value,
\* and stays the same when the step changes neither.
C2_TimestampStrictlyGrows ==
  [][\A cmName \in DOMAIN configMaps \cap DOMAIN configMaps' :
       LET old == configMaps[cmName].data
           new == configMaps'[cmName].data
           same == \A k \in ContentKeys :
                     /\ (k \in DOMAIN old) = (k \in DOMAIN new)
                     /\ k \in DOMAIN old => old[k] = new[k]
       IN /\ new["timestamp.txt"] >= old["timestamp.txt"]
          /\ ~same => new["timestamp.txt"] > old["timestamp.txt"]
          /\ same => new["timestamp.txt"] = old["timestamp.txt"]]_vars

C4_OwnerAfterEveryReconcile ==
  (Returned /\ WroteConfigMap /\ turn.result = "ok") =>
    \A name \in DOMAIN decofiles :
      (decofiles[name].uid = turn.uid /\ ConfigMapName(name) \in DOMAIN configMaps)
        => configMaps[ConfigMapName(name)].owner = decofiles[name].uid

\* C7: when notifyCtx was done before the notifier had collected every result,
\* the notifier returned the timeout error that carries the success count.
C7_CutShortReturnsTimeout ==
  (Returned /\ turn.notifierInvoked /\ turn.cut) => turn.result = "err:timeout"

\* C8: while a fan-out runs the Decofile's PodsNotified condition is Unknown,
\* and once the fan-out has completed it is True or False.
C8_PodsNotifiedCondition ==
  \A name \in DOMAIN decofiles :
    /\ (rec.pc = "collect" /\ rec.name = name /\ decofiles[name].uid = turn.uid)
         => HasCondition(decofiles[name].status, "PodsNotified", "Unknown")
    /\ (Returned /\ turn.notifierInvoked /\ turn.result = "ok"
          /\ decofiles[name].uid = turn.uid)
         => HasCondition(decofiles[name].status, "PodsNotified", "True")
    /\ (Returned /\ turn.notifierInvoked /\ turn.result \in FanoutErrors
          /\ decofiles[name].uid = turn.uid)
         => HasCondition(decofiles[name].status, "PodsNotified", "False")

\* C9: a fan-out that ended with failures or a timeout leaves PodsNotified=False
\* and a requeue, and the reconcile that retries it calls the notifier again.
C9_FailedFanoutIsRetried ==
  /\ (Returned /\ turn.result \in FanoutErrors) =>
       /\ rec.requeue
       /\ \A name \in DOMAIN decofiles :
            decofiles[name].uid = turn.uid
              => HasCondition(decofiles[name].status, "PodsNotified", "False")
  /\ (Returned /\ turn.retry /\ WroteConfigMap) => turn.notifierInvoked

\* C10: the step in which Reconcile returns the notifier's error leaves the
\* ConfigMaps as they are, and the ConfigMap of the turn (if the garbage
\* collector has not taken it) holds the content and timestamp the turn wrote.
C10_NotifierErrorKeepsRewrite ==
  [][(rec.pc # "idle" /\ rec'.pc = "idle" /\ turn'.result \in NotifyErrors) =>
       /\ configMaps' = configMaps
       /\ ConfigMapName(rec.name) \in DOMAIN configMaps' =>
            /\ configMaps'[ConfigMapName(rec.name)].data = rec.written
            /\ rec.written["timestamp.txt"] = rec.timestamp]_vars

C10_Witness ==
  /\ Returned
  /\ turn.result \in NotifyErrors
  /\ turn.kind = "Rewritten"
  /\ turn.formatChanged
  /\ \E cmName \in DOMAIN configMaps :
       /\ configMaps[cmName].owner = turn.uid
       /\ "decofile.bin" \in DOMAIN configMaps[cmName].data
       /\ configMaps[cmName].data["timestamp.txt"] = now

\* C16: a reconcile of a Decofile whose spec.silent is true sends no request
\* to any pod.
C16_SilentContactsNoPod ==
  turn.silent => \A p \in PodSet : p.reqs = 0

\* C17: a reconcile of a Decofile of the GitHub source whose status holds the
\* revision of its spec, and whose ConfigMap exists, downloads no archive.
C17_NoDownloadOfSeenRevision ==
  [][\A name \in DecofileNames :
       (/\ rec.pc = "idle"
        /\ turn' # turn
        /\ name \in DOMAIN decofiles
        /\ decofiles[name].spec.source = SourceTypeGitHub
        /\ decofiles[name].status.gitHubCommit = decofiles[name].spec.github
        /\ ConfigMapName(name) \in DOMAIN configMaps)
         => ~turn'.downloaded]_vars

\* The worker of the pod found, or will find, nothing to notify: the pod is
\* not Running, has no IP, or was gone when the worker re-read it.
NotNotifiable(p) ==
  \/ p.phase # "Running"
  \/ ~p.hasIP
  \/ p.res = "getfail"
  \/ ~p.live /\ p.g \in {"queued", "get"}

\* C18: a discovered pod that is missing, not Running or without IP when its
\* worker re-reads it gets no HTTP request, and the notifier reports a failure
\* only for pods that were Running with an IP when re-read.
C18_SkippedPodNoRequestNoError ==
  /\ [](\A p \in PodSet : NotNotifiable(p) => p.reqs = 0)
  /\ [][(rec.pc = "collect" /\ turn'.result = "err:failed")
          => /\ turn'.n > 0
             /\ turn'.n <= Copies({p \in PodSet : ~NotNotifiable(p) /\ p.g = "exit"
                                                   /\ p.res # "ok"})]_vars

C18_Witness ==
  /\ rec.pc = "collect"
  /\ resultChan = <<"getfail">>
  /\ \E p \in PodSet : ~p.live /\ p.res = "getfail" /\ p.reqs = 0 /\ Discovered([p EXCEPT !.live = TRUE], rec.name)

\* C21: the retry loop sends no attempt to a pod that vanished while the loop
\* waited between two attempts.
C21_VanishedPodNotRetried ==
  [][\A p \in PodSet :
       (~p.live /\ p.g = "backoff")
         => [p EXCEPT !.g = "http", !.attempt = @ + 1, !.reqs = @ + 1] \notin BagToSet(pods')]_vars

\* C23: a reconcile that fails to resolve the source, or to retrieve its
\* content, leaves the ConfigMaps as they are and returns with an error
\* condition recorded in the status of the Decofile.
C23_SourceErrorRecordedInStatus ==
  [][(rec.pc = "idle" /\ turn'.result \in {"err:source", "err:retrieve"})
       => /\ configMaps' = configMaps
          /\ \A name \in DOMAIN decofiles' :
               \E i \in 1..Len(decofiles'[name].status.conditions) :
                 decofiles'[name].status.conditions[i].status # "True"]_vars

Admission(i) == services'[i].admitted = services[i].admitted + 1

\* The environment of the container the mutator targets.
TargetEnv(service) ==
  IF service.template.containers = <<>> THEN <<>>
  ELSE service.template.containers[findTargetContainer(service)].env

TokenIn(env) ==
  LET i == IndexOf(env, reloadTokenEnvVar, 1) IN IF i = 0 THEN "" ELSE env[i].value

\* The numbers of volumes, and of mounts and environment entries per container.
Counts(service) ==
  [volumes |-> Len(service.template.volumes),
   mounts |-> [c \in 1..Len(service.template.containers) |->
                 Len(service.template.containers[c].volumeMounts)],
   env |-> [c \in 1..Len(service.template.containers) |->
              Len(service.template.containers[c].env)]]

\* C11: an admission of a Service whose target container already carries
\* DECO_RELEASE_RELOAD_TOKEN leaves that value as it is.
C11_TokenKeptWhenPresent ==
  [][\A i \in 1..Len(services) :
       (Admission(i) /\ TokenIn(TargetEnv(services[i])) # "")
         => TokenIn(TargetEnv(services'[i])) = TokenIn(TargetEnv(services[i]))]_vars

\* C12: the reload requests to a pod created from an injected template carry
\* "Authorization: Token T", T being the token the mutator injected into the
\* template, whichever container it targeted.
C12_RequestsCarryInjectedToken ==
  \A p \in PodSet : p.boundTo # "" => Authorization(p) = "Token " \o p.token

\* C13: a pod created from the template of a Service injected for Decofile D
\* is matched by the selector of a fan-out for D.
C13_InjectedPodsAreDiscovered ==
  \A p \in PodSet : p.boundTo # "" => Discovered(p, p.boundTo)

\* C14: an admission of a Service that an earlier admission injected leaves the
\* numbers of volumes, volume mounts and environment entries as they are, with
\* one decofile-config volume, and one decofile-config mount, DECO_RELEASE and
\* DECO_RELEASE_RELOAD_TOKEN in the target container.
C14_SecondAdmissionAddsNothing ==
  [][\A i \in 1..Len(services) :
       (Admission(i) /\ services[i].boundTo # "") =>
         LET after == services'[i]
             target == after.template.containers[findTargetContainer(after)]
             named(seq, n) == Cardinality({k \in 1..Len(seq) : seq[k].name = n})
         IN /\ Counts(after) = Counts(services[i])
            /\ named(after.template.volumes, "decofile-config") = 1
            /\ named(target.volumeMounts, "decofile-config") = 1
            /\ named(target.env, decoReleaseEnvVar) = 1
            /\ named(target.env, reloadTokenEnvVar) = 1]_vars

C14_Witness ==
  \E i \in 1..Len(services) :
    /\ services[i].admitted = 2
    /\ services[i].boundTo # ""
    /\ services[i].token = "t2"
    /\ Len(services[i].template.containers) = 2
    /\ Len(services[i].template.volumes) = 1

\* No Decofile of the Service's namespace has the Service's deploymentId as
\* effective id, or the one that has it has no ConfigMap name in its status.
NothingToInject(service) ==
  \A n \in DOMAIN decofiles :
    (/\ decofiles[n].namespace = service.namespace
     /\ service.labels[deploymentIdLabel] =
          (IF decofiles[n].spec.deploymentId # "" THEN decofiles[n].spec.deploymentId ELSE n))
      => decofiles[n].status.configMapName = ""

TargetOf(service) ==
  LET cs == service.template.containers
      apps == {k \in 1..Len(cs) : cs[k].name = "app"}
  IN IF apps # {} THEN cs[CHOOSE k \in apps : \A j \in apps : k <= j] ELSE cs[1]

\* C29: the target container of an injected Service has exactly one volume
\* mount named decofile-config; it is at the decofile-mount-path annotation's
\* value, or at /app/decofile, it is read-only and its subpath is empty.
C29_OneReadOnlyMount ==
  \A i \in 1..Len(services) :
    services[i].boundTo # "" =>
      LET mounts == TargetOf(services[i]).volumeMounts
          named == {k \in 1..Len(mounts) : mounts[k].name = "decofile-config"}
      IN /\ Cardinality(named) = 1
         /\ \A k \in named :
              /\ mounts[k].mountPath =
                   (IF "deco.sites/decofile-mount-path" \in DOMAIN services[i].annotations
                      THEN services[i].annotations["deco.sites/decofile-mount-path"]
                      ELSE "/app/decofile")
              /\ mounts[k].readOnly
              /\ mounts[k].subPath = ""

C31_BoundToTheUniqueDecofile ==
  \A i \in 1..Len(services) :
    services[i].boundTo # "" =>
      {n \in DOMAIN decofiles :
         /\ decofiles[n].namespace = services[i].namespace
         /\ (IF decofiles[n].spec.deploymentId # "" THEN decofiles[n].spec.deploymentId ELSE n)
              = services[i].labels["app.deco/deploymentId"]} = {services[i].boundTo}

Binding(name) ==
  LET id == IF decofiles[name].spec.deploymentId # ""
              THEN decofiles[name].spec.deploymentId ELSE name
  IN {i \in 1..Len(services) :
        /\ services[i].namespace = decofiles[name].namespace
        /\ decofileInjectAnnot \in DOMAIN services[i].annotations
        /\ services[i].annotations[decofileInjectAnnot] = "true"
        /\ deploymentIdLabel \in DOMAIN services[i].labels
        /\ services[i].labels[deploymentIdLabel] = id}

\* C5: with a Service list that succeeds, the delete of a Decofile is rejected
\* exactly when a Service binds it, and the rejection names the binding
\* Services; a delete that was rejected found a binding Service.
C5_DeleteRejectedIffBound ==
  \A name \in DOMAIN decofiles :
    LET resp == ValidateDelete(name, decofiles[name], services, TRUE)
    IN /\ resp.allowed <=> Binding(name) = {}
       /\ {resp.names[i] : i \in 1..Len(resp.names)}
            = {services[i].name : i \in Binding(name)}
       /\ ~admission.allowed =>
            /\ Binding(name) # {}
            /\ admission = resp

C5_Witness ==
  /\ ~admission.allowed
  /\ admission.names # <<>>
  /\ \E name \in DOMAIN decofiles : Binding(name) # {}

\* C19: the results the collector has counted are each in exactly one of the
\* three counters, and the successes are pods that answered 2xx: a pod that is
\* not Running or has no IP is not among them.
C19_SkippedNotCountedAsSuccess ==
  /\ coll.i = coll.successCount + coll.failCount + coll.skippedCount
  /\ coll.successCount <= Copies({p \in PodSet : p.res = "ok"})

C22_ListFailureAdmitsDelete ==
  \A name \in DOMAIN decofiles :
    LET resp == ValidateDelete(name, decofiles[name], services, FALSE)
    IN resp.allowed /\ resp.warnings = 0 /\ resp.names = <<>>

\* A Decofile that Services bound under either id is deleted, and admitted.
C22_Witness ==
  /\ decofiles = EmptyMap
  /\ admission.allowed /\ admission.warnings = 0
  /\ \A id \in {"site", "d1"} :
       \E i \in 1..Len(services) :
         /\ services[i].namespace = Namespace
         /\ MapGet(services[i].annotations, decofileInjectAnnot) = "true"
         /\ MapGet(services[i].labels, deploymentIdLabel) = id

(***************************************************************************)
(* Properties of the sources (checked under SpecSource).                   *)
(***************************************************************************)
\* C26: no top-level key of a document Retrieve returned ends in .json.
C26_NoKeyEndsInJson ==
  src.pc = "done" =>
    \A key \in DOMAIN src.result.doc : key = <<>> \/ key[Len(key)] # ".json"

\* The file of path rel, relative to the root of the archive, lies in the
\* directory dir (written with or without its final slash).
InDirectory(rel, dir) ==
  LET d == IF dir # <<>> /\ dir[Len(dir)] = "/" THEN SubSeq(dir, 1, Len(dir) - 1) ELSE dir
  IN \/ d = <<>>
     \/ /\ Len(d) < Len(rel)
        /\ SubSeq(rel, 1, Len(d)) = d
        /\ rel[Len(d) + 1] = "/"

\* C27: every file of the entry map the extractor returned lies in the
\* configured path directory of the archive.
C27_OnlyFilesOfThePath ==
  src.pc = "done" =>
    \A filename \in DOMAIN src.result.files :
      InDirectory(src.result.files[filename], src.config.path)

\* C28: the GitHub source downloads the archive with the token field of the
\* referenced secret when there is one, else with GITHUB_TOKEN of the process
\* environment, else with the empty token; the request carries an
\* Authorization header exactly when the token is not empty.
C28_TokenOfSecretElseEnvironment ==
  (src.pc = "done" /\ src.source = "github") =>
    LET ofSecret == IF /\ src.config.secret # ""
                       /\ src.config.secret \in DOMAIN src.secrets
                       /\ "token" \in DOMAIN src.secrets[src.config.secret]
                      THEN src.secrets[src.config.secret]["token"] ELSE ""
        ofEnv == IF "GITHUB_TOKEN" \in DOMAIN src.env THEN src.env["GITHUB_TOKEN"] ELSE ""
        token == IF ofSecret # "" THEN ofSecret ELSE ofEnv
    IN /\ Len(src.result.requests) = 1
       /\ src.result.token = token
       /\ src.result.requests[1].authorization = (IF token = "" THEN "" ELSE "token " \o token)

(***************************************************************************)
(* The status specification: the end of Reconcile step by step, with the   *)
(* writes of other clients between the steps.  One Decofile "site" exists  *)
(* and no pod carries its label.                                           *)
(*   rec.pc: "idle"; "refetch" (the ConfigMap and notification steps are   *)
(*   done, the Decofile is about to be read again); "status" (the status   *)
(*   is set on the fresh copy, r.Status().Update is about to be called).   *)
(*   rec.decofile: the copy read at the start of the turn.                 *)
(*   rec.fresh: the copy read again.                                       *)
(* The API server rejects the update of an object that changed since the   *)
(* client read it (the resourceVersion differs): a conflict.               *)
(* turn.result is "running", "ok" or the error Reconcile returned.         *)
(***************************************************************************)
InitStatus ==
  /\ now = 1
  /\ nextUid = 2
  /\ decofiles \in {"site" :> [uid |-> 1, namespace |-> Namespace, spec |-> s,
                              status |-> EmptyStatus] : s \in UserSpecs}
  /\ configMaps = EmptyMap
  /\ services = <<>>
  /\ pods = EmptyBag
  /\ rec = Idle(FALSE)
  /\ resultChan = <<>>
  /\ coll = ZeroColl
  /\ ctxDone = FALSE
  /\ turn = NoTurn
  /\ admission = Admitted
  /\ src = NoSource

\* Reconcile from its start to the end of the notification step.
ReconcileStart(name) ==
  /\ rec.pc = "idle"
  /\ UNCHANGED <<src, now, nextUid, services, pods, resultChan, coll, ctxDone, admission>>
  /\ IF name \notin DOMAIN decofiles
       THEN /\ turn' = [NoTurn EXCEPT !.kind = "NotFound", !.result = "ok"]
            /\ rec' = Idle(FALSE)
            /\ UNCHANGED <<decofiles, configMaps>>
     ELSE IF NewSource(decofiles[name]).err
       THEN ReturnEarly("err:source")
     ELSE \E r \in Retrieve(decofiles[name]), listOK \in BOOLEAN :
       IF r.err
         THEN ReturnEarly("err:retrieve")
       ELSE
         LET decofile == decofiles[name]
             sourceType == NewSource(decofile).sourceType
             cmName == ConfigMapName(name)
             up == Upsert(configMaps, cmName, Encode(r.json), decofile.uid, now)
             wrote == [NoTurn EXCEPT !.kind = up.kind, !.uid = decofile.uid,
                                     !.formatChanged = up.formatChanged,
                                     !.notifierInvoked = up.dataChanged,
                                     !.silent = decofile.spec.silent,
                                     !.downloaded = (sourceType = SourceTypeGitHub)]
         IN
         /\ configMaps' = IF up.write THEN Put(configMaps, cmName, up.cm) ELSE configMaps
         /\ UNCHANGED decofiles
         /\ IF up.dataChanged /\ ~listOK
              THEN /\ rec' = Idle(TRUE)
                   /\ turn' = [wrote EXCEPT !.result = "err:list"]
              ELSE /\ rec' = [pc |-> "refetch", name |-> name, sourceType |-> sourceType,
                              decofile |-> decofile, fresh |-> decofile, requeue |-> FALSE]
                   /\ turn' = [wrote EXCEPT !.result = "running"]

\* "err = r.Get(ctx, req.NamespacedName, freshDecofile)".
Refetch ==
  /\ rec.pc = "refetch"
  /\ IF rec.name \notin DOMAIN decofiles
       THEN /\ rec' = Idle(TRUE)
            /\ turn' = [turn EXCEPT !.result = "err:refetch"]
       ELSE /\ rec' = [rec EXCEPT !.pc = "status", !.fresh = decofiles[rec.name]]
            /\ turn' = turn
  /\ UNCHANGED <<src, now, nextUid, decofiles, configMaps, services, pods, resultChan, coll,
                 ctxDone, admission>>

\* "err = r.Status().Update(ctx, freshDecofile)": fresh is the object as the
\* client read it, status the status the client set on it.  The status of
\* the stored object is replaced unless the object changed since.
StatusUpdate(dfs, name, fresh, status) ==
  IF name \in DOMAIN dfs /\ dfs[name] = fresh
    THEN [err |-> "", decofiles |-> Put(dfs, name, [fresh EXCEPT !.status = status])]
    ELSE [err |-> "err:conflict", decofiles |-> dfs]

\* The status is set on the fresh copy and written; Reconcile returns.
UpdateStatusOfFresh ==
  /\ rec.pc = "status"
  /\ LET status == StatusAfter(rec.fresh, ConfigMapName(rec.name), rec.sourceType)
         out == StatusUpdate(decofiles, rec.name, rec.fresh, status)
     IN /\ decofiles' = out.decofiles
        /\ rec' = Idle(out.err # "")
        /\ turn' = [turn EXCEPT !.result = IF out.err = "" THEN "ok" ELSE out.err]
  /\ UNCHANGED <<src, now, nextUid, configMaps, services, pods, resultChan, coll, ctxDone,
                 admission>>

NextStatus ==
  \/ \E name \in DecofileNames : ReconcileStart(name)
  \/ Refetch
  \/ UpdateStatusOfFresh
  \/ Tick
  \/ \E name \in DecofileNames, spec \in UserSpecs : CreateDecofile(name, spec)
  \/ \E name \in DecofileNames, spec \in UserSpecs : UpdateDecofile(name, spec)
  \/ \E name \in DecofileNames : DeleteDecofile(name)

SpecStatus == InitStatus /\ [][NextStatus]_vars

(***************************************************************************)
(* Property of the status write (checked under SpecStatus).                *)
(***************************************************************************)
\* C32: the status is written onto the copy of the Decofile read again after
\* the ConfigMap and notification steps; when the object changed since that
\* read (a conflict), the stored object is left as it is and the Decofile is
\* requeued while Reconcile returns no error.
C32_ConflictRequeuedWithoutError ==
  [][(rec.pc = "status" /\ rec'.pc = "idle") =>
       IF rec.name \in DOMAIN decofiles /\ decofiles[rec.name] = rec.fresh
         THEN /\ decofiles'[rec.name].spec = rec.fresh.spec
              /\ decofiles'[rec.name].status =
                   StatusAfter(rec.fresh, ConfigMapName(rec.name), rec.sourceType)
         ELSE /\ decofiles' = decofiles
              /\ rec'.requeue
              /\ turn'.result \notin {"err:conflict", "err:refetch"}]_vars

(***************************************************************************)
(* Properties of the notification step (checked under Spec).               *)
(***************************************************************************)
\* A request has just been sent to a pod.
RequestSent ==
  \E p \in BagToSet(pods') :
    p.g = "http" /\ p.live /\ CopiesIn(p, pods') > CopiesIn(p, pods)

\* C33: every reload request is sent by the fan-out of the running turn, and
\* the timestamp of its body is the timestamp.txt this turn wrote to the
\* ConfigMap.
C33_SentTimestampIsWritten ==
  [][RequestSent =>
       /\ rec.pc = "collect"
       /\ rec.payload.timestamp = rec.written["timestamp.txt"]
       /\ rec.payload.timestamp = rec.timestamp]_vars

\* A pod got a request of a turn that rewrote the ConfigMap a second after
\* it was created.
C33_Witness ==
  /\ rec.pc = "collect"
  /\ rec.payload.timestamp = 2
  /\ rec.written["timestamp.txt"] = 2
  /\ \E p \in PodSet : p.reqs > 0

(***************************************************************************)
(* Properties of the fan-out's result (checked under SpecFanout).          *)
(***************************************************************************)
\* C34: when NotifyPodsForDecofile returns nil, every discovered pod has
\* answered 2xx to one attempt, or was skipped as not Running or without IP,
\* or was gone when its worker read it again; in particular no pod is left
\* that the deadline or a cancellation kept from being notified.
C34_NilMeansEveryPodAnsweredOrSkipped ==
  [][(rec.pc = "collect" /\ rec'.pc = "idle" /\ turn'.result \notin NotifyErrors) =>
       \A p \in PodSet :
         p.g # "none" =>
           \/ p.res \in {"ok", "skip"}
           \/ p.res = "getfail" /\ ~p.live]_vars

(***************************************************************************)
(* Property of the recorded revision (checked under Spec).                 *)
(***************************************************************************)
\* C35: when a reconcile of a Decofile with the archive source has returned
\* without error, status.gitHubCommit names the revision whose archive
\* content the ConfigMap holds.
C35_StatusCommitIsStoredRevision ==
  (Returned /\ turn.result = "ok" /\ turn.downloaded) =>
    \A name \in DOMAIN decofiles :
      (decofiles[name].uid = turn.uid /\ ConfigMapName(name) \in DOMAIN configMaps) =>
        LET cm == configMaps[ConfigMapName(name)]
            commit == decofiles[name].status.gitHubCommit
        IN /\ commit \in Commits
           /\ Lookup(cm.data, ExistingKey(cm)) = Encode(ArchiveContent(commit)).value

(***************************************************************************)
(* The inline specification: the Decofile "site" has the inline source,    *)
(* one Running pod carries its label, and nothing but the reconciler acts. *)
(* src.value is the value map of spec.inline (spec.inline is "value"), and *)
(* src.result what the last Retrieve returned.                             *)
(***************************************************************************)
InlineSpec ==
  [deploymentId |-> "", source |-> SourceTypeInline, inline |-> "value", github |-> "nil",
   silent |-> FALSE]

InitInline ==
  /\ now = 1
  /\ nextUid = 2
  /\ decofiles = "site" :> [uid |-> 1, namespace |-> Namespace, spec |-> InlineSpec,
                            status |-> EmptyStatus]
  /\ configMaps = EmptyMap
  /\ services = <<>>
  /\ pods = Of(Pod("Running", TRUE, "site"), 1)
  /\ rec = Idle(FALSE)
  /\ resultChan = <<>>
  /\ coll = ZeroColl
  /\ ctxDone = FALSE
  /\ turn = NoTurn
  /\ admission = Admitted
  /\ src \in InlineCalls

RECURSIVE PieceLen(_)
\* The bytes of a key.
PieceLen(key) ==
  IF key = <<>> THEN 0
  ELSE (IF Head(key) = ".json" THEN 5 ELSE 1) + PieceLen(Tail(key))

RECURSIVE EntriesLen(_, _)
EntriesLen(doc, keys) ==
  IF keys = {} THEN 0
  ELSE LET key == CHOOSE k \in keys : TRUE
       IN PieceLen(key) + 6 + EntriesLen(doc, keys \ {key})

\* The bytes of the document encoder.Encode writes for filesJSON: the braces,
\* and for each entry the quoted key, the colon, the two bytes of the value
\* and a comma (but after the last).
JSONLen(doc) == IF doc = EmptyMap THEN 2 ELSE 1 + EntriesLen(doc, DOMAIN doc)

\* Reconcile of the Decofile with the value map of src.
ReconcileInline(name) ==
  /\ rec.pc = "idle"
  /\ NoWorkers
  /\ UNCHANGED <<now, nextUid, services, pods, resultChan, coll, ctxDone, admission>>
  /\ \E r \in InlineRetrieve(src.value) :
       /\ src' = [src EXCEPT !.pc = "done",
                             !.result = [NoResult EXCEPT !.err = r.err, !.doc = r.doc]]
       /\ IF r.err
            THEN ReturnEarly("err:retrieve")
            ELSE WriteConfigMap(name, EncodeOfLen(r.doc, JSONLen(r.doc)))

NextInline ==
  \/ \E name \in DecofileNames : ReconcileInline(name)
  \/ NotifyPodsForDecofile
  \/ Collect
  \/ CollectTimeout
  \/ CtxDone
  \/ Acquire
  \/ GetPod
  \/ Response
  \/ BackoffTimer
  \/ BackoffCancelled
  \/ Tick

SpecInline == InitInline /\ [][NextInline]_vars

(***************************************************************************)
(* Property of the repeated reconcile (checked under SpecInline).          *)
(***************************************************************************)
\* C36: a reconcile of the Decofile whose ConfigMap an earlier reconcile of
\* the same spec wrote leaves the ConfigMap as it is, and no request is sent
\* to a pod.
C36_SecondTurnChangesNothing ==
  [][ConfigMapName("site") \in DOMAIN configMaps =>
       /\ configMaps' = configMaps
       /\ \A p \in BagToSet(pods') : p.reqs = 0]_vars

(***************************************************************************)
(* The cluster specification: the mutator, the reconciler and the delete   *)
(* validator at work on one cluster.  The Decofile "site" is reconciled    *)
(* (small inline content, stored as decofile.json), a Service asks for its *)
(* injection, and no pod carries the Decofile's label.                     *)
(***************************************************************************)
ClusterDecofile ==
  LET created == [uid |-> 1, namespace |-> Namespace,
                  spec |-> [FanoutSpec EXCEPT !.inline = "s1"], status |-> EmptyStatus]
  IN [created EXCEPT
        !.status = StatusAfter(created, ConfigMapName("site"), SourceTypeInline)]

ClusterServices ==
  {svc \in AdmitServices :
     /\ decofileInjectAnnot \in DOMAIN svc.annotations
     /\ svc.annotations[decofileInjectAnnot] = "true"
     /\ svc.labels = (deploymentIdLabel :> "site")
     /\ svc.template.containers \in
          {<<Container(appContainerName, <<>>)>>,
           <<Container("web", <<>>), Container(appContainerName, <<>>)>>}}

InitCluster ==
  /\ now = 1
  /\ nextUid = 2
  /\ decofiles = "site" :> ClusterDecofile
  /\ configMaps = ConfigMapName("site") :> CreateBranch(Encode("s1"), 1, 1).cm
  /\ \E svc \in ClusterServices : services = <<svc>>
  /\ pods = EmptyBag
  /\ rec = Idle(FALSE)
  /\ resultChan = <<>>
  /\ coll = ZeroColl
  /\ ctxDone = FALSE
  /\ turn = NoTurn
  /\ admission = Admitted
  /\ src = NoSource

NextCluster ==
  \/ AdmitService
  \/ RemoveInjectAnnotation
  \/ \E name \in DecofileNames : Reconcile(name)
  \/ NotifyPodsForDecofile
  \/ \E name \in DecofileNames, spec \in UserSpecs : UpdateDecofile(name, spec)
  \/ \E name \in DecofileNames : DeleteDecofile(name)
  \/ GarbageCollect

SpecCluster == InitCluster /\ [][NextCluster]_vars

(***************************************************************************)
(* Properties of the injected Services (checked under SpecCluster).        *)
(***************************************************************************)
\* The names of the ConfigMaps the decofile-config volumes of the Service
\* refer to.
Mounted(service) ==
  {service.template.volumes[k].configMap :
     k \in {j \in 1..Len(service.template.volumes) :
              service.template.volumes[j].name = "decofile-config"}}

\* C37: DECO_RELEASE of the target container of an injected Service is the
\* path, in the mount directory, of a content key that the ConfigMap the
\* Service mounts holds.
C37_DecoReleaseNamesPresentKey ==
  \A i \in 1..Len(services) :
    services[i].boundTo # "" =>
      LET env == TargetOf(services[i]).env
      IN \A cm \in Mounted(services[i]) \cap DOMAIN configMaps :
           \A k \in 1..Len(env) :
             env[k].name = decoReleaseEnvVar =>
               \E key \in ContentKeys \cap DOMAIN configMaps[cm].data :
                 \E dir \in {"/app/decofile", "/custom"} :
                   env[k].value = "file://" \o dir \o "/" \o key

\* C38: the Decofile an injected Service is bound to exists, and every
\* decofile-config volume of a Service refers to the ConfigMap of a Decofile
\* that exists.
C38_NoServiceBoundToDeletedDecofile ==
  \A i \in 1..Len(services) :
    /\ services[i].boundTo # "" => services[i].boundTo \in DOMAIN decofiles
    /\ \A cm \in Mounted(services[i]) :
         \E name \in DOMAIN decofiles : ConfigMapName(name) = cm

(***************************************************************************)
(* The liveness specification: the Decofile "site" has just been created   *)
(* or changed, so its key is in the work queue (rec.requeue), and its spec *)
(* stays as it is.  A ConfigMap of earlier content may exist, and pods     *)
(* with the Decofile's label may fail every request.                       *)
(* Fairness: the work queue hands a queued key to Reconcile, also after an *)
(* error (requeue with back-off); a retrieval that can succeed does so in  *)
(* one of the turns; goroutines that can take a step take it; the deadline *)
(* of notifyCtx elapses.                                                   *)
(***************************************************************************)
InitLive ==
  /\ now = 1
  /\ nextUid = 2
  /\ decofiles \in {"site" :> [uid |-> 1, namespace |-> Namespace, spec |-> s,
                              status |-> EmptyStatus] : s \in UserSpecs}
  /\ configMaps \in {EmptyMap} \cup {ConfigMapName("site") :> CreateBranch(Encode(doc), 1, 1).cm :
                                      doc \in {"s1", "b1"}}
  /\ services = <<>>
  /\ pods \in InitPods
  /\ rec = Idle(TRUE)
  /\ resultChan = <<>>
  /\ coll = ZeroColl
  /\ ctxDone = FALSE
  /\ turn = NoTurn
  /\ admission = Admitted
  /\ src = NoSource

NextLive ==
  \/ \E name \in DecofileNames : Reconcile(name)
  \/ NotifyPodsForDecofile
  \/ Collect
  \/ CollectTimeout
  \/ CtxDone
  \/ Acquire
  \/ GetPod
  \/ Response
  \/ BackoffTimer
  \/ BackoffCancelled
  \/ Tick

\* A queued turn, and one whose retrieval succeeds.
Requeued == rec.requeue /\ \E name \in DecofileNames : Reconcile(name)

RequeuedRetrieving == Requeued /\ turn'.result \notin {"err:source", "err:retrieve"}

FairLive ==
  /\ WF_vars(Requeued)
  /\ SF_vars(RequeuedRetrieving)
  /\ WF_vars(NotifyPodsForDecofile)
  /\ WF_vars(Collect)
  /\ WF_vars(CollectTimeout)
  /\ WF_vars(CtxDone)
  /\ WF_vars(Acquire)
  /\ WF_vars(GetPod)
  /\ WF_vars(Response)
  /\ WF_vars(BackoffTimer)
  /\ WF_vars(BackoffCancelled)

SpecLive == InitLive /\ [][NextLive]_vars /\ FairLive

(***************************************************************************)
(* Property of the requeued reconcile (checked under SpecLive).            *)
(***************************************************************************)
\* The source of the Decofile can be built and retrieved.
Retrievable(decofile) ==
  ~NewSource(decofile).err /\ \E r \in Retrieve(decofile) : ~r.err

\* The ConfigMap holds the encoded content of the spec, and the status has
\* the ConfigMap's name and Ready=True.
Converged(name) ==
  /\ name \in DOMAIN decofiles
  /\ ConfigMapName(name) \in DOMAIN configMaps
  /\ \E r \in Retrieve(decofiles[name]) :
       /\ ~r.err
       /\ Encode(r.json).contentKey \in DOMAIN configMaps[ConfigMapName(name)].data
       /\ configMaps[ConfigMapName(name)].data[Encode(r.json).contentKey] = Encode(r.json).value
  /\ decofiles[name].status.configMapName = ConfigMapName(name)
  /\ HasCondition(decofiles[name].status, "Ready", "True")

\* C39: when the source of the Decofile can be retrieved, the ConfigMap
\* eventually holds the encoding of the spec's content and the status
\* eventually has Ready=True and the ConfigMap's name, and they stay so,
\* whatever the pods answer.
C39_EventuallyConverged ==
  Retrievable(decofiles["site"]) => <>[]Converged("site")

\* The retry of a turn that failed in the notifier has written the status.
C39_Witness ==
  /\ Returned
  /\ turn.retry
  /\ turn.result = "ok"
  /\ Converged("site")

(***************************************************************************)
(* The fan-out with fair goroutines: a worker that can take a step takes   *)
(* it (the scheduler runs every runnable goroutine, a request ends by its  *)
(* answer or the client's timeout, a timer fires).  Nothing is assumed of  *)
(* the collector and of the deadline.                                      *)
(***************************************************************************)
FairWorkers ==
  /\ WF_vars(Acquire)
  /\ WF_vars(GetPod)
  /\ WF_vars(Response)
  /\ WF_vars(BackoffTimer)
  /\ WF_vars(BackoffCancelled)

SpecFanoutLive == InitFanout /\ [][NextFanout]_vars /\ FairWorkers

(***************************************************************************)
(* Property of the workers' termination (checked under SpecFanoutLive).    *)
(***************************************************************************)
\* C40: eventually every worker of the fan-out has ended and no slot of the
\* semaphore is held, for good, whether or not the notifier has returned.
C40_WorkersTerminate == <>[](NoWorkers /\ InFlight = 0)

\* The notifier has returned on the deadline while one worker waits for a
\* slot and others hold theirs.
C40_Witness ==
  /\ rec.pc = "idle"
  /\ turn.result = "err:timeout"
  /\ \E p \in PodSet : p.g = "queued"
  /\ InFlight = notificationBatchSize

====
